---- MODULE Spec2Model ----
(***************************************************************************)
(* A model of the two record stores of this repository:                    *)
(*   primitive_db    (PrimitiveDB, Grammar A: token-splitting conditions,  *)
(*                    select cache keyed by table, where and version)      *)
(*   simple_json_db  (DBEngine, Grammar B: compile_where over a Python     *)
(*                    syntax tree with an allow-list)                      *)
(* Text (table names, field names, raw values, where-texts) is a sequence  *)
(* of one-character strings, so that parsing and coercion are computed     *)
(* character by character as the code does.                                *)
(***************************************************************************)
EXTENDS Integers, Sequences, FiniteSets, TLC

VARIABLES
    engine,     \* which package is running: "primitive_db" or "simple_json_db", or "none"
    meta,       \* PrimitiveDB._meta["tables"]: the in-memory metadata
    pmeta,      \* the metadata file (db_meta.json / db/meta.json)
    files,      \* the row files that exist: table name -> list of rows
    torn,       \* the files a failed write left cut off: unreadable as JSON
    versions,   \* PrimitiveDB._versions
    cache,      \* the dict closed over by _make_select_cache
    res,        \* what the last call returned (or the error it reported)
    asked,      \* the where argument of the last call
    failedOps,  \* history: the operations that had a file write fail
    faults,     \* how many file writes the environment may still fail
    okInserts,  \* history: successful inserts per table since its create_table
    prevSel,    \* history: per (table, conditions), the last select since the table's create_table
    selHist,    \* history: what prevSel held for the select that just ran
    call,       \* the argument of a pure function under check
    ret         \* its result

vars == <<engine, meta, pmeta, files, torn, versions, cache, res, asked, failedOps, faults,
          okInserts, prevSel, selHist, call, ret>>

-----------------------------------------------------------------------------
(* Text helpers: Python's str methods on sequences of characters.          *)

WS == {" ", "\t", "\n"}

UpperLetters == <<"A","B","C","D","E","F","G","H","I","J","K","L","M",
                  "N","O","P","Q","R","S","T","U","V","W","X","Y","Z">>
LowerLetters == <<"a","b","c","d","e","f","g","h","i","j","k","l","m",
                  "n","o","p","q","r","s","t","u","v","w","x","y","z">>
DigitChars == <<"0","1","2","3","4","5","6","7","8","9">>

Range(s) == {s[i] : i \in DOMAIN s}

\* the element of a one-element set; {e(x) : x \in {v}} names an intermediate result
\* once, as a local variable of the code does
The(S) == CHOOSE x \in S : TRUE

IndexOf(seq, c) == CHOOSE i \in DOMAIN seq : seq[i] = c

\* str.lower() on one character
LowerCh(c) == IF c \in Range(UpperLetters) THEN LowerLetters[IndexOf(UpperLetters, c)] ELSE c

\* str.lower()
Lower(s) == [i \in DOMAIN s |-> LowerCh(s[i])]

\* str.strip(): whitespace removed at both ends
Strip(s) ==
    LET keep == {i \in DOMAIN s : s[i] \notin WS}
    IN  IF keep = {} THEN <<>>
        ELSE LET lo == CHOOSE i \in keep : \A j \in keep : i <= j
                 hi == CHOOSE i \in keep : \A j \in keep : j <= i
             IN  SubSeq(s, lo, hi)

\* the positions at which sub occurs in s
Occurrences(sub, s) ==
    {i \in 1..(Len(s) - Len(sub) + 1) : SubSeq(s, i, i + Len(sub) - 1) = sub}

\* `sub in s`
Contains(sub, s) == Occurrences(sub, s) # {}

\* s.split(sub, 1) when sub occurs in s: the text before and after its first occurrence
SplitFirst(s, sub) ==
    LET occ == Occurrences(sub, s)
        i == CHOOSE k \in occ : \A j \in occ : k <= j
    IN  <<SubSeq(s, 1, i - 1), SubSeq(s, i + Len(sub), Len(s))>>

\* _IDENTIFIER_RE = ^[A-Za-z_][A-Za-z0-9_]*$ with re.match ($ also matches before a final newline)
IsIdentifier(s) ==
    LET core == IF Len(s) > 0 /\ s[Len(s)] = "\n" THEN SubSeq(s, 1, Len(s) - 1) ELSE s
        first == Range(UpperLetters) \cup Range(LowerLetters) \cup {"_"}
    IN  /\ Len(core) > 0
        /\ core[1] \in first
        /\ \A i \in DOMAIN core : core[i] \in first \cup Range(DigitChars)

\* ensure_identifier: the error it raises, or "ok"
ensure_identifier(name) == IF IsIdentifier(name) THEN "ok" ELSE "ValidationError"

-----------------------------------------------------------------------------
(* Scalar values. One record shape for every kind, so that values of       *)
(* different kinds compare unequal instead of being incomparable.          *)
(* k is the Python type ("None", "int", "float", "str", "bool") or the     *)
(* error raised instead of a value (k \in Errors).                         *)
(* A float is a binary64 value, named by the decimal its repr writes,      *)
(* which has at most seventeen digits: i holds the first nine of them with *)
(* the sign of the value, m the eight that follow (zeros where the repr    *)
(* ends before) and e the power of ten of the first digit. 0.0 is i = 0,   *)
(* e = 0, m = 0, and b tells -0.0 from 0.0; inf, -inf and nan are named    *)
(* by s with i = 1, -1 and 1.                                              *)

Val(k, i, s, b) == [k |-> k, i |-> i, s |-> s, b |-> b, e |-> 0, m |-> 0]
NoneV == Val("None", 0, <<>>, FALSE)
IntV(n) == Val("int", n, <<>>, FALSE)
StrV(s) == Val("str", 0, s, FALSE)
BoolV(b) == Val("bool", 0, <<>>, b)
ErrV(e) == Val(e, 0, <<>>, FALSE)

INF == <<"i","n","f">>
NAN == <<"n","a","n">>

InfV(negative) == Val("float", IF negative THEN 0 - 1 ELSE 1, INF, FALSE)
NanV == Val("float", 1, NAN, FALSE)

Errors == {"ValidationError", "SchemaError", "ParseError", "TableExistsError",
           "TableNotFoundError", "StorageError", "EngineError", "WhereError",
           "TypeErrorDB", "ValueError", "NameError", "TypeError", "AttributeError"}

IsErr(v) == v.k \in Errors

\* the mutant of SUPPORTED_TYPES: type names outside the four are accepted too
SupportedAndUnknownTypes == {"int", "float", "str", "bool", "text", "unsupported"}

\* constants.py: SUPPORTED_TYPES
SUPPORTED_TYPES == {"int", "float", "str", "bool"}

\* constants.py: BOOL_TRUE / BOOL_FALSE (the ASCII tokens; the Cyrillic ones are
\* outside the alphabet of this model)
BOOL_TRUE == {<<"t","r","u","e">>, <<"1">>, <<"y","e","s">>, <<"y">>}
BOOL_FALSE == {<<"f","a","l","s","e">>, <<"0">>, <<"n","o">>, <<"n">>}

\* utils.strip_quotes: one matching pair of surrounding quotes removed after strip()
strip_quotes(value) ==
    The({IF Len(v) >= 2 /\ v[1] = v[Len(v)] /\ v[1] \in {"'", "\""}
         THEN SubSeq(v, 2, Len(v) - 1)
         ELSE v : v \in {Strip(value)}})

\* the value of a sequence of decimal digits: the zeros it starts with add nothing
RECURSIVE DigitsValue(_)
DigitsValue(d) ==
    IF d = <<>> THEN 0
    ELSE IF d[1] = "0"
        THEN (IF \A i \in DOMAIN d : d[i] = "0" THEN 0
              ELSE DigitsValue(SubSeq(d, CHOOSE i \in DOMAIN d :
                                             d[i] # "0" /\ \A j \in 1..(i - 1) : d[j] = "0",
                                      Len(d))))
    ELSE 10 * DigitsValue(SubSeq(d, 1, Len(d) - 1)) + (IndexOf(DigitChars, d[Len(d)]) - 1)

Digit == Range(DigitChars)

\* a run of decimal digits in a numeric literal: single underscores may stand between
\* two digits
DigitGroupOk(d) ==
    /\ Len(d) > 0
    /\ d[1] \in Digit
    /\ d[Len(d)] \in Digit
    /\ \A i \in DOMAIN d : d[i] \in Digit \cup {"_"}
    /\ \A i \in 1..(Len(d) - 1) : ~(d[i] = "_" /\ d[i + 1] = "_")

\* the digits of a digit group
Digits(d) == SelectSeq(d, LAMBDA c : c # "_")

Signed(s) == Len(s) > 0 /\ s[1] \in {"+", "-"}
Unsigned(s) == IF Signed(s) THEN Tail(s) ELSE s

\* the value of a digit group with an optional sign
SignedValue(s) ==
    IF s[1] = "-" THEN 0 - DigitsValue(Digits(Tail(s))) ELSE DigitsValue(Digits(Unsigned(s)))

\* Python's int(text): optional surrounding whitespace, optional sign, decimal digits
\* with single underscores between them; a text of more than 4300 digits, the zeros it
\* starts with counted and the underscores not, is refused (ValueError) by the limit
\* CPython sets on the conversion, sys.int_info.default_max_str_digits
IntLiteralOk(text) ==
    \E d \in {Unsigned(Strip(text))} : DigitGroupOk(d) /\ Len(Digits(d)) <= 4300

IntLiteralValue(text) == The({SignedValue(s) : s \in {Strip(text)}})

-----------------------------------------------------------------------------
(* Python's float is IEEE 754 binary64. float(text) is the binary64       *)
(* nearest to the decimal the text writes (ties to the even significand,   *)
(* inf from 2^1024 - 2^970 on, 0.0 up to 2^-1075), and repr(x) is the      *)
(* shortest decimal that float() reads back as x. Both are computed here   *)
(* exactly, on natural numbers of any size: a sequence of limbs below      *)
(* 1000, the lowest limb first, zero being the empty sequence.             *)
(* The operations are the cases of one recursive operator, Binary64, and   *)
(* each has its name and parameters in the definition that applies it.     *)

RECURSIVE Binary64(_, _)

\* a without the zero limbs at its top
Trim(a) == Binary64("Trim", <<a>>)
\* the number with the columns c: natural numbers below 2^31, column j counted in
\* units of 1000^(j-1)
Carried(c) == Binary64("Carried", <<c>>)
\* a + b
Add(a, b) == Binary64("Add", <<a, b>>)
\* a - b for a >= b
Sub(a, b) == Binary64("Sub", <<a, b>>)
\* a * b
Mul(a, b) == Binary64("Mul", <<a, b>>)
\* b^n for a natural number b below 1000
Power(b, n) == Binary64("Power", <<b, n>>)
\* a \div 2
Half(a) == Binary64("Half", <<a>>)
\* how the numbers a and b stand: "less", "equal" or "greater"
BigOrder(a, b) == Binary64("BigOrder", <<a, b>>)
\* a digit text without the zeros it starts with
NoLeadingZeros(d) == Binary64("NoLeadingZeros", <<d>>)
\* the place of the last digit of a digit text that is not 0
LastNonZero(d) == Binary64("LastNonZero", <<d>>)
\* the number a digit text writes
FromDigits(d) == Binary64("FromDigits", <<d>>)
\* the digit text of a number
ToDigits(a) == Binary64("ToDigits", <<a>>)
\* how two digit texts of one length stand
TextOrder(a, b) == Binary64("TextOrder", <<a, b>>)
\* the decimals of `keep` digits next to x that lie between l and h (three digit texts
\* of one length, l < x < h), the bounds counting when closed: each with the number of
\* its digits that are not zeros at either end
Candidates(x, l, h, keep, closed) == Binary64("Candidates", <<x, l, h, keep, closed>>)
\* the binary64 nearest to digits * 10^e (digits not starting with 0, not empty):
\* q * 2^b with q <= 2^53, where b = -1074 or q >= 2^52; q = 0 when it is 0.0
Nearest(digits, e) == Binary64("Nearest", <<digits, e>>)
\* the shortest decimal d * 10^e that float() reads as q * 2^b (q < 2^53, and b = -1074
\* or q >= 2^52)
Shortest(q, b) == Binary64("Shortest", <<q, b>>)
\* the float the decimal digits * 10^e rounds to, as a value
Float(digits, e, negative) == Binary64("Float", <<digits, e, negative>>)
\* the exponent a literal writes, read in full: its sign and its size
ExponentValue(power) == Binary64("ExponentValue", <<power>>)
\* the float the decimal literal with the parts p names
DecimalValue(p, negative) == Binary64("DecimalValue", <<p, negative>>)

Compared(x, y) == IF x < y THEN "less" ELSE IF x = y THEN "equal" ELSE "greater"

Limb(a, i) == IF 1 <= i /\ i <= Len(a) THEN a[i] ELSE 0

Zeros(n) == [i \in 1..n |-> "0"]

DigitOf(c) == IndexOf(DigitChars, c) - 1

\* a digit text without the zeros it ends with
NoTrailingZeros(d) == SubSeq(d, 1, LastNonZero(d))

\* 2^52 and 2^53
TwoTo52 == <<496, 370, 627, 599, 503, 4>>
TwoTo53 == <<992, 740, 254, 199, 7, 9>>

\* the sum of a[i] * b[j + 1 - i] for i from lo to hi
RECURSIVE Column(_, _, _, _, _)
Column(a, b, j, lo, hi) ==
    IF lo > hi THEN 0
    ELSE IF lo = hi THEN a[lo] * b[j + 1 - lo]
    ELSE Column(a, b, j, lo, (lo + hi) \div 2) + Column(a, b, j, ((lo + hi) \div 2) + 1, hi)

\* how the digits written after the point stand to one half
FractionKind(f) ==
    IF \A i \in DOMAIN f : f[i] = "0" THEN "zero"
    ELSE IF f[1] \in {"0", "1", "2", "3", "4"} THEN "below"
    ELSE IF f[1] = "5" /\ \A i \in 2..Len(f) : f[i] = "0" THEN "half"
    ELSE "above"

\* n halved until it is below 2^53: the significand n, how what was cut off stands to
\* one half, the number j of halvings
RECURSIVE Halved(_, _, _)
Halved(n, kind, j) ==
    IF BigOrder(n, TwoTo53) = "less" THEN [n |-> n, kind |-> kind, j |-> j]
    ELSE The({Halved(h, c, jj)
              : h \in {Half(n)}, jj \in {j + 1},
                c \in {IF n[1] % 2 = 0 THEN (IF kind = "zero" THEN "zero" ELSE "below")
                       ELSE (IF kind = "zero" THEN "half" ELSE "above")}})

\* the exponent of a power of two that digits * 10^e is not below, less 52: no step
\* of the significand is lower, the lowest of all being 2^-1074
LowestStep(digits, e) ==
    The({IF lb - 52 < 0 - 1074 THEN 0 - 1074 ELSE lb - 52
         : lb \in {IF Len(digits) + e - 1 >= 0 THEN ((Len(digits) + e - 1) * 3321928) \div 1000000
                   ELSE 0 - (((1 - Len(digits) - e) * 3321929 + 999999) \div 1000000)}})

\* a digit text plus one, of the same length
RECURSIVE Inc(_, _)
Inc(d, i) ==
    IF i = 0 THEN d
    ELSE IF d[i] = "9" THEN The({Inc(x, j) : x \in {[d EXCEPT ![i] = "0"]}, j \in {i - 1}})
    ELSE [d EXCEPT ![i] = DigitChars[DigitOf(d[i]) + 2]]

\* the least number of digits kept for which there is such a decimal
LeastKept(x, l, h, closed) ==
    CHOOSE keep \in 1..Len(x) :
        /\ keep = Len(x) \/ Candidates(x, l, h, keep, closed) # {}
        /\ \A k \in 1..(keep - 1) : Candidates(x, l, h, k, closed) = {}

\* |a - b|
Apart(a, b) == The({IF BigOrder(x, y) = "less" THEN Sub(y, x) ELSE Sub(x, y) : x \in {a}, y \in {b}})

Binary64(op, args) ==
    The({
    CASE op = "Trim" ->
        LET a == p[1]
        IN  IF \A i \in DOMAIN a : a[i] = 0 THEN <<>>
            ELSE SubSeq(a, 1, CHOOSE i \in DOMAIN a : a[i] # 0 /\ \A j \in (i + 1)..Len(a) : a[j] = 0)
      [] op = "Carried" ->
        \* every column is spread over the limbs it reaches, which leaves at most one
        \* to carry from limb to limb
        The({The({The({
            Trim([j \in 1..(Len(u) + 1) |->
                (Limb(u, j) + (IF \E i \in over : i < j /\ \A m \in (i + 1)..(j - 1) : u[m] = 1000 - 1
                               THEN 1 ELSE 0)) % 1000])
            : over \in {{i \in DOMAIN u : u[i] >= 1000}}})
            : u \in {[j \in 1..(Len(t) + 1) |-> (Limb(t, j) % 1000) + (Limb(t, j - 1) \div 1000)]}})
            : t \in {[j \in 1..(Len(p[1]) + 3) |->
                        (Limb(p[1], j) % 1000) + ((Limb(p[1], j - 1) \div 1000) % 1000)
                        + ((Limb(p[1], j - 2) \div (1000 * 1000)) % 1000)
                        + (Limb(p[1], j - 3) \div (1000 * 1000 * 1000))]}})
      [] op = "Add" ->
        LET a == p[1]
            b == p[2]
        IN  Carried([j \in 1..(IF Len(a) > Len(b) THEN Len(a) ELSE Len(b)) |-> Limb(a, j) + Limb(b, j)])
      [] op = "Sub" ->
        The({The({
            Trim([j \in DOMAIN d |->
                (d[j] + 1000 - (IF \E i \in under : i < j /\ \A m \in (i + 1)..(j - 1) : d[m] = 0
                                THEN 1 ELSE 0)) % 1000])
            : under \in {{i \in DOMAIN d : d[i] < 0}}})
            : d \in {[j \in DOMAIN p[1] |-> p[1][j] - Limb(p[2], j)]}})
      [] op = "Mul" ->
        LET a == p[1]
            b == p[2]
        IN  IF a = <<>> \/ b = <<>> THEN <<>>
            ELSE Carried([j \in 1..(Len(a) + Len(b) - 1) |->
                            Column(a, b, j, IF j > Len(b) THEN j + 1 - Len(b) ELSE 1,
                                   IF j < Len(a) THEN j ELSE Len(a))])
      [] op = "Power" ->
        LET b == p[1]
            n == p[2]
        IN  IF n = 0 THEN <<1>>
            ELSE The({IF n % 2 = 1 THEN Mul(Mul(h, h), <<b>>) ELSE Mul(h, h)
                      : h \in {Power(b, n \div 2)}})
      [] op = "Half" ->
        LET a == p[1]
        IN  Trim([i \in DOMAIN a |-> (a[i] + 1000 * (Limb(a, i + 1) % 2)) \div 2])
      [] op = "BigOrder" ->
        LET a == p[1]
            b == p[2]
        IN  IF Len(a) # Len(b) THEN Compared(Len(a), Len(b))
            ELSE IF a = b THEN "equal"
            ELSE The({Compared(a[i], b[i])
                      : i \in {CHOOSE i \in DOMAIN a : a[i] # b[i] /\ \A j \in (i + 1)..Len(a) : a[j] = b[j]}})
      [] op = "NoLeadingZeros" ->
        LET d == p[1]
        IN  IF \A i \in DOMAIN d : d[i] = "0" THEN <<>>
            ELSE SubSeq(d, CHOOSE i \in DOMAIN d : d[i] # "0" /\ \A j \in 1..(i - 1) : d[j] = "0", Len(d))
      [] op = "LastNonZero" ->
        LET d == p[1]
        IN  IF \A i \in DOMAIN d : d[i] = "0" THEN 0
            ELSE CHOOSE i \in DOMAIN d : d[i] # "0" /\ \A j \in (i + 1)..Len(d) : d[j] = "0"
      [] op = "FromDigits" ->
        LET d == p[1]
        IN  Trim([i \in 1..((Len(d) + 2) \div 3) |->
                The({(IF hi >= 3 THEN 100 * DigitOf(d[hi - 2]) ELSE 0)
                     + (IF hi >= 2 THEN 10 * DigitOf(d[hi - 1]) ELSE 0)
                     + DigitOf(d[hi]) : hi \in {Len(d) - 3 * (i - 1)}})])
      [] op = "ToDigits" ->
        LET a == p[1]
        IN  NoLeadingZeros([j \in 1..(3 * Len(a)) |->
                The({DigitChars[(IF (j - 1) % 3 = 0 THEN limb \div 100
                                 ELSE IF (j - 1) % 3 = 1 THEN (limb \div 10) % 10
                                 ELSE limb % 10) + 1]
                     : limb \in {a[Len(a) - ((j - 1) \div 3)]}})])
      [] op = "TextOrder" ->
        LET a == p[1]
            b == p[2]
        IN  IF a = b THEN "equal"
            ELSE The({Compared(DigitOf(a[i]), DigitOf(b[i]))
                      : i \in {CHOOSE i \in DOMAIN a : a[i] # b[i] /\ \A j \in 1..(i - 1) : a[j] = b[j]}})
      [] op = "Candidates" ->
        LET x == p[1]
            l == p[2]
            h == p[3]
            keep == p[4]
            closed == p[5]
        IN  The({ {[c |-> c \o Zeros(Len(x) - keep), n |-> Len(NoTrailingZeros(NoLeadingZeros(c)))]
                   : c \in {d \in {px} : \/ TextOrder(pl, d) = "less"
                                         \/ (pl = d /\ closed
                                             /\ \A i \in (keep + 1)..Len(l) : l[i] = "0")}
                           \cup {u \in {Inc(px, keep)} :
                                    \/ TextOrder(u, ph) = "less"
                                    \/ (u = ph /\ closed)
                                    \/ (u = ph /\ \E i \in (keep + 1)..Len(h) : h[i] # "0")}}
                 : px \in {SubSeq(x, 1, keep)}, pl \in {SubSeq(l, 1, keep)}, ph \in {SubSeq(h, 1, keep)}})
      [] op = "Nearest" ->
        \* digits * 10^e / 2^lo is written out as a decimal (division by 2^n being
        \* multiplication by 5^n / 10^n) and halved until it is below 2^53
        The({The({The({The({The({
            [q |-> Add(h.n, IF h.kind = "above" \/ (h.kind = "half" /\ Limb(h.n, 1) % 2 = 1)
                            THEN <<1>> ELSE <<>>),
             b |-> lo + h.j]
            : h \in {Halved(FromDigits(SubSeq(w, 1, cut)), FractionKind(SubSeq(w, cut + 1, Len(w))), 0)}})
            : cut \in {IF shift < 0 THEN Len(w) + shift ELSE Len(w)}})
            : w \in {IF shift >= 0 THEN t \o Zeros(shift)
                     ELSE IF Len(t) + shift <= 0 THEN Zeros(0 - (Len(t) + shift)) \o t
                     ELSE t}})
            : t \in {ToDigits(Mul(FromDigits(p[1]),
                                  Power(IF lo <= 0 THEN 2 ELSE 5, IF lo <= 0 THEN 0 - lo ELSE lo)))},
              shift \in {IF lo <= 0 THEN p[2] ELSE p[2] - lo}})
            : lo \in {LowestStep(p[1], p[2])}})
      [] op = "Shortest" ->
        \* the decimal lies within half a step from the neighbours of q * 2^b, the bounds
        \* included when q is even, and is the nearest to q * 2^b of the decimals that
        \* short, the one with the even last digit of two equally near. The numbers are
        \* taken in units of 2^(b-2), which is 5^(2-b) * 10^(b-2) below 1.
        LET q == p[1]
            b == p[2]
        IN  The({The({The({The({The({The({The({
                [d |-> NoTrailingZeros(NoLeadingZeros(best.c)),
                 e |-> (IF b < 2 THEN b - 2 ELSE 0) + (Len(best.c) - LastNonZero(best.c))]
                : best \in {c \in cs : \A o \in cs :
                                \/ c.n < o.n
                                \/ (c.n = o.n
                                    /\ \E r \in {BigOrder(Apart(FromDigits(c.c), x),
                                                          Apart(FromDigits(o.c), x))} :
                                          \/ r = "less"
                                          \/ (r = "equal"
                                              /\ (c = o \/ DigitOf(c.c[LastNonZero(c.c)]) % 2 = 0)))}})
                : cs \in {Candidates(xd, ld, hd, keep, closed)
                          \cup (IF keep < Len(xd) THEN Candidates(xd, ld, hd, keep + 1, closed) ELSE {})}})
                : keep \in {LeastKept(xd, ld, hd, closed)}})
                : xd \in {The({Zeros(Len(hd) - Len(t)) \o t : t \in {ToDigits(x)}})},
                  ld \in {The({Zeros(Len(hd) - Len(t)) \o t : t \in {ToDigits(l)}})}})
                : hd \in {<<"0">> \o ToDigits(h)}})
                : x \in {Mul(unit, Mul(q, <<4>>))},
                  h \in {Mul(unit, Add(Mul(q, <<4>>), <<2>>))},
                  l \in {Mul(unit, Sub(Mul(q, <<4>>),
                                       IF q = TwoTo52 /\ b > 0 - 1074 THEN <<1>> ELSE <<2>>))},
                  closed \in {Limb(q, 1) % 2 = 0}})
            : unit \in {Power(IF b >= 2 THEN 2 ELSE 5, IF b >= 2 THEN b - 2 ELSE 2 - b)}})
      [] op = "Float" ->
        \* a value holds the seventeen digits the repr starts with, zeros added
        LET negative == p[3]
        IN  The({IF m = <<>> \/ Len(m) + p[2] < 0 - 324 THEN Val("float", 0, <<>>, negative)
                 ELSE IF Len(m) + p[2] > 310 THEN InfV(negative)
                 ELSE The({IF r.q = <<>> THEN Val("float", 0, <<>>, negative)
                           ELSE IF r.b > 971 \/ (r.b = 971 /\ r.q = TwoTo53) THEN InfV(negative)
                           ELSE The({The({[Val("float",
                                               IF negative THEN 0 - DigitsValue(SubSeq(d, 1, 9))
                                               ELSE DigitsValue(SubSeq(d, 1, 9)),
                                               <<>>, FALSE)
                                           EXCEPT !.e = s.e + Len(s.d) - 1,
                                                  !.m = DigitsValue(SubSeq(d, 10, 17))]
                                          : d \in {s.d \o Zeros(17 - Len(s.d))}})
                                     : s \in {IF r.q = TwoTo53 THEN Shortest(TwoTo52, r.b + 1)
                                              ELSE Shortest(r.q, r.b)}})
                           : r \in {Nearest(m, p[2])}})
                 : m \in {NoLeadingZeros(p[1])}})
      [] op = "ExponentValue" ->
        LET power == p[1]
        IN  [negative |-> power[1] = "-", n |-> FromDigits(Digits(Unsigned(power)))]
      [] op = "DecimalValue" ->
        \* the digits m, the first not 0, stand for 0.m * 10^place, where place is the
        \* number of digits of m, plus the exponent, less the number of digits after the
        \* point. From 10^999 on a decimal is above every binary64 and reads as inf, and
        \* below 10^-1000 it is under half the least binary64 and reads as 0.0; between
        \* the two the place is a small number and Float rounds the decimal.
        LET parts == p[1]
        IN  The({The({The({The({
                IF m = <<>> THEN Float(m, 0, p[2])
                ELSE IF BigOrder(dist, <<999>>) = "greater"
                    THEN (IF up THEN InfV(p[2]) ELSE Float(<<>>, 0, p[2]))
                ELSE Float(m, (IF up THEN Limb(dist, 1) ELSE 0 - Limb(dist, 1)) - Len(m), p[2])
                : up \in {BigOrder(rise, fall) # "less"}, dist \in {Apart(rise, fall)}})
                : rise \in {Add(Carried(<<Len(m)>>), IF x.negative THEN <<>> ELSE x.n)},
                  fall \in {Add(Carried(<<Len(digits[2])>>), IF x.negative THEN x.n ELSE <<>>)}})
                : m \in {NoLeadingZeros(digits[1] \o digits[2])}})
                : x \in {IF parts.exp = 0 THEN [negative |-> FALSE, n |-> <<>>]
                         ELSE ExponentValue(parts.power)},
                  digits \in {[part \in {1, 2} |->
                                   Digits(IF part = 1 THEN parts.whole ELSE parts.frac)]}})
    : p \in {args}})

-----------------------------------------------------------------------------
\* the parts of a decimal float literal without its sign: the digits before the point,
\* the digits after it and the exponent; point and exp are 0 where the part is absent
FloatParts(u) ==
    LET es == {i \in DOMAIN u : u[i] \in {"e", "E"}}
        exp == IF es = {} THEN 0 ELSE CHOOSE i \in es : \A j \in es : i <= j
        body == IF exp = 0 THEN u ELSE SubSeq(u, 1, exp - 1)
        ps == {i \in DOMAIN body : body[i] = "."}
        point == IF ps = {} THEN 0 ELSE CHOOSE i \in ps : \A j \in ps : i <= j
    IN  [whole |-> IF point = 0 THEN body ELSE SubSeq(body, 1, point - 1),
         frac |-> IF point = 0 THEN <<>> ELSE SubSeq(body, point + 1, Len(body)),
         power |-> IF exp = 0 THEN <<>> ELSE SubSeq(u, exp + 1, Len(u)),
         point |-> point, exp |-> exp]

\* digits with an optional point and an optional exponent
DecimalOk(p) ==
    /\ p.whole # <<>> \/ (p.point # 0 /\ p.frac # <<>>)
    /\ \A d \in {p.whole, p.frac} \ {<<>>} : DigitGroupOk(d)
    /\ p.exp = 0 \/ \E d \in {Unsigned(p.power)} : DigitGroupOk(d)


\* Python's float(text), or the ValueError it raises: optional surrounding whitespace
\* and sign, then inf, infinity or nan in any case, or a decimal literal
FloatLiteral(text) ==
    The({IF Lower(u) = NAN THEN NanV
         ELSE IF Lower(u) \in {INF, INF \o <<"i","n","i","t","y">>} THEN InfV(Signed(s) /\ s[1] = "-")
         ELSE The({IF DecimalOk(p) THEN DecimalValue(p, Signed(s) /\ s[1] = "-")
                   ELSE ErrV("ValueError") : p \in {FloatParts(u)}})
    : s \in {Strip(text)}, u \in {Unsigned(Strip(text))}})

\* utils.parse_scalar: raw text to the typed value of the schema, or the error raised
parse_scalar(raw0, type_name) ==
    The({IF Lower(raw) \in {<<"n","u","l","l">>, <<"n","o","n","e">>} THEN NoneV
         ELSE IF type_name = "str" THEN StrV(strip_quotes(raw))
         ELSE IF type_name = "bool" THEN
            The({IF lowered \in BOOL_TRUE THEN BoolV(TRUE)
                 ELSE IF lowered \in BOOL_FALSE THEN BoolV(FALSE)
                 ELSE ErrV("ValidationError") : lowered \in {Lower(Strip(strip_quotes(raw)))}})
         ELSE IF type_name = "int" THEN
            The({IF IntLiteralOk(text) THEN IntV(IntLiteralValue(text))
                 ELSE ErrV("ValidationError") : text \in {strip_quotes(raw)}})
         ELSE IF type_name = "float" THEN
            The({IF IsErr(value) THEN ErrV("ValidationError") ELSE value
                 : value \in {FloatLiteral(strip_quotes(raw))}})
         ELSE ErrV("SchemaError") : raw \in {Strip(raw0)}})

-----------------------------------------------------------------------------
(* Grammar A: one comparison phrase to a Condition.                        *)

\* utils.Condition, with err = "ok", or the error parse_comparison raises
Condition(field, op, raw_value) ==
    [err |-> "ok", field |-> field, op |-> op, raw_value |-> raw_value]
CondErr(e) == [err |-> e, field |-> <<>>, op |-> "", raw_value |-> <<>>]

\* the operators in the order parse_comparison tries them, and their characters
OpOrder == <<">=", "<=", "!=", "=", ">", "<">>
OpChars(op) ==
    CASE op = ">=" -> <<">", "=">>
      [] op = "<=" -> <<"<", "=">>
      [] op = "!=" -> <<"!", "=">>
      [] op = "="  -> <<"=">>
      [] op = ">"  -> <<">">>
      [] op = "<"  -> <<"<">>

\* utils.parse_comparison: the first operator of OpOrder that occurs anywhere in the
\* phrase splits it at its first occurrence
parse_comparison(expr0) ==
    LET expr == Strip(expr0)
        found == {k \in DOMAIN OpOrder : Contains(OpChars(OpOrder[k]), expr)}
    IN  IF found = {} THEN CondErr("ParseError")
        ELSE LET k == CHOOSE x \in found : \A y \in found : x <= y
                 op == OpOrder[k]
                 parts == SplitFirst(expr, OpChars(op))
                 field == Strip(parts[1])
                 raw == Strip(parts[2])
             IN  IF ensure_identifier(field) # "ok" THEN CondErr("ValidationError")
                 ELSE IF raw = <<>> THEN CondErr("ParseError")
                 ELSE Condition(field, op, raw)

\* parser._parse_where on the tokens shlex.split gives for the text after `where`:
\* the phrases between the `and` tokens, each through parse_comparison; [err, where]
RECURSIVE JoinSpace(_)
JoinSpace(buf) ==
    IF buf = <<>> THEN <<>>
    ELSE IF Len(buf) = 1 THEN buf[1]
    ELSE buf[1] \o <<" ">> \o JoinSpace(Tail(buf))

RECURSIVE PartsFrom(_, _, _, _)
PartsFrom(tokens, i, buf, parts) ==
    IF i > Len(tokens)
    THEN [err |-> "ok", parts |-> IF buf # <<>> THEN Append(parts, JoinSpace(buf)) ELSE parts]
    ELSE IF Lower(tokens[i]) = <<"a","n","d">>
        THEN IF buf = <<>> THEN [err |-> "ParseError", parts |-> <<>>]
             ELSE PartsFrom(tokens, i + 1, <<>>, Append(parts, JoinSpace(buf)))
    ELSE IF Lower(tokens[i]) = <<"o","r">> THEN [err |-> "ParseError", parts |-> <<>>]
    ELSE PartsFrom(tokens, i + 1, Append(buf, tokens[i]), parts)

_parse_where(tokens) ==
    The({IF p.err # "ok" THEN [err |-> p.err, where |-> <<>>]
         ELSE The({LET bad == {k \in DOMAIN conds : conds[k].err # "ok"}
                   IN  IF bad # {}
                       THEN [err |-> conds[CHOOSE k \in bad : \A j \in bad : k <= j].err,
                             where |-> <<>>]
                       ELSE [err |-> "ok", where |-> conds]
                   : conds \in {[k \in DOMAIN p.parts |-> parse_comparison(p.parts[k])]}})
         : p \in {PartsFrom(tokens, 1, <<>>, <<>>)}})


-----------------------------------------------------------------------------
(* Python dicts as functions, rows, comparison of scalar values.           *)

EmptyMap == [x \in {} |-> 0]
Put(m, k, v) == [x \in DOMAIN m \cup {k} |-> IF x = k THEN v ELSE m[x]]
Remove(m, k) == [x \in DOMAIN m \ {k} |-> m[x]]

ID == <<"i","d">>

\* the mutant of IsReserved: no field name is reserved
NothingReserved(field) == FALSE

\* `field == "id"` in create_table, update and parse_schema_parts
IsReserved(field) == field = ID

\* the mutant of NewTable: the id counter of a new table starts at 1
NewTableCountingFromOne(schema) == [schema |-> schema, last_id |-> 1]

\* the metadata entry create_table writes: the schema and an id counter of 0
NewTable(schema) == [schema |-> schema, last_id |-> 0]

\* dict.get(field): None when the key is absent
Get(row, field) == IF field \in DOMAIN row THEN row[field] ELSE NoneV

\* the characters of the model in code-point order
Ascii == <<"\t", "\n", " ", "!", "\"", "'", "(", ")", "+", "-", ".">> \o DigitChars
         \o <<"<", "=", ">">> \o UpperLetters \o <<"_">> \o LowerLetters
CharOrd(c) == IndexOf(Ascii, c)

\* str < str: lexicographic by code point
RECURSIVE StrLess(_, _)
StrLess(a, b) ==
    IF b = <<>> THEN FALSE
    ELSE IF a = <<>> THEN TRUE
    ELSE IF a[1] = b[1] THEN StrLess(Tail(a), Tail(b))
    ELSE CharOrd(a[1]) < CharOrd(b[1])

IsNum(v) == v.k \in {"int", "float", "bool"}
Num(v) == IF v.k = "bool" THEN (IF v.b THEN 1 ELSE 0) ELSE v.i

RECURSIVE Pow10(_)
Pow10(n) == IF n = 0 THEN 1 ELSE 10 * Pow10(n - 1)

IsNan(v) == v.k = "float" /\ v.s = NAN
IsInf(v) == v.k = "float" /\ v.s = INF

\* the number of decimal digits of a natural number
RECURSIVE Width(_)
Width(n) == IF n < 10 THEN 1 ELSE 1 + Width(n \div 10)

\* a finite number as a float value holds it: its first nine digits with its sign, the
\* power of ten of the first digit, the digits that follow
Decimal(v) ==
    IF v.k = "float" THEN <<v.i, v.e, v.m>>
    ELSE The({IF n = 0 THEN <<0, 0, 0>>
              ELSE The({<<IF Num(v) < 0 THEN 0 - hi ELSE hi, w - 1,
                          IF w = 10 THEN (n % 10) * 10000000 ELSE 0>>
                        : hi \in {IF w = 10 THEN n \div 10 ELSE n * Pow10(9 - w)}})
              : n \in {IF Num(v) < 0 THEN 0 - Num(v) ELSE Num(v)},
                w \in {Width(IF Num(v) < 0 THEN 0 - Num(v) ELSE Num(v))}})

\* how the numbers a and b stand: nan is unordered with every number, inf and -inf lie
\* beyond the finite numbers, int and bool are compared as integers, and a float is
\* compared with a finite number by sign, then power of ten, then digits
NumOrder(a, b) ==
    IF IsNan(a) \/ IsNan(b) THEN "unordered"
    ELSE The({Compared(c[1], c[2])
              : c \in {IF IsInf(a) \/ IsInf(b)
                          THEN <<IF IsInf(a) THEN a.i ELSE 0, IF IsInf(b) THEN b.i ELSE 0>>
                       ELSE IF a.k # "float" /\ b.k # "float" THEN <<Num(a), Num(b)>>
                       ELSE The({The({
                                IF \/ x[1] = 0 \/ y[1] = 0 \/ (x[1] < 0) # (y[1] < 0)
                                   \/ (x[2] = y[2] /\ x[1] # y[1])
                                    THEN <<x[1], y[1]>>
                                ELSE The({IF x[1] > 0 THEN <<x[k], y[k]>> ELSE <<y[k], x[k]>>
                                          : k \in {IF x[2] # y[2] THEN 2 ELSE 3}})
                                : x \in {d[1]}, y \in {d[2]}})
                                : d \in {[j \in {1, 2} |-> Decimal(IF j = 1 THEN a ELSE b)]}})}})

\* Python's a == b on scalars: numbers (bool included) by value, otherwise same type and value
PyEq(a, b) == IF IsNum(a) /\ IsNum(b) THEN NumOrder(a, b) = "equal" ELSE a = b

\* Python's a < b on scalars that are not None: "True", "False" or "TypeError"
PyLess(a, b) ==
    IF IsNum(a) /\ IsNum(b) THEN (IF NumOrder(a, b) = "less" THEN "True" ELSE "False")
    ELSE IF a.k = "str" /\ b.k = "str" THEN (IF StrLess(a.s, b.s) THEN "True" ELSE "False")
    ELSE "TypeError"

\* a <= b
PyLessEq(a, b) ==
    IF IsNum(a) /\ IsNum(b)
        THEN (IF NumOrder(a, b) \in {"less", "equal"} THEN "True" ELSE "False")
    ELSE IF a.k = "str" /\ b.k = "str"
        THEN (IF a.s = b.s \/ StrLess(a.s, b.s) THEN "True" ELSE "False")
    ELSE "TypeError"

\* bool(v)
Truthy(v) ==
    CASE v.k = "None" -> FALSE
      [] v.k = "bool" -> v.b
      [] v.k = "str" -> v.s # <<>>
      [] OTHER -> v.i # 0

\* the row left by `for f, v in prepared_set.items(): r[f] = v` (row.update(cooked) in
\* DBEngine.update)
Overwritten(row, cooked) == cooked
Updated(row, cooked) ==
    [f \in DOMAIN row \cup DOMAIN cooked |-> IF f \in DOMAIN cooked THEN cooked[f] ELSE row[f]]

KeepAll(seq, keep, i) == seq
\* [x for x in seq if keep(x)] for a set of kept positions
RECURSIVE SelectIdx(_, _, _)
SelectIdx(seq, keep, i) ==
    IF i > Len(seq) THEN <<>>
    ELSE (IF i \in keep THEN <<seq[i]>> ELSE <<>>) \o SelectIdx(seq, keep, i + 1)

-----------------------------------------------------------------------------
(* primitive_db.core: the filter evaluator of Grammar A.                   *)

Prepared(field, op, value) == [field |-> field, op |-> op, value |-> value]

\* the mutant of MatchOne: the ordering comparisons are made without the test for None
MatchOneUnguarded(row, c) ==
    LET left == Get(row, c.field)
        value == c.value
    IN  CASE c.op = "="  -> IF ~PyEq(left, value) THEN "False" ELSE "True"
          [] c.op = "!=" -> IF PyEq(left, value) THEN "False" ELSE "True"
          [] c.op = ">"  -> PyLess(value, left)
          [] c.op = "<"  -> PyLess(left, value)
          [] c.op = ">=" -> PyLessEq(value, left)
          [] c.op = "<=" -> PyLessEq(left, value)
          [] OTHER -> "ValidationError"

\* one prepared comparison on a row as PrimitiveDB._match decides it:
\* "True", "False", or the error raised
MatchOne(row, c) ==
    LET left == Get(row, c.field)
        value == c.value
        ordered(r) == IF left.k = "None" \/ value.k = "None" THEN "False" ELSE r
    IN  CASE c.op = "="  -> IF ~PyEq(left, value) THEN "False" ELSE "True"
          [] c.op = "!=" -> IF PyEq(left, value) THEN "False" ELSE "True"
          [] c.op = ">"  -> ordered(PyLess(value, left))
          [] c.op = "<"  -> ordered(PyLess(left, value))
          [] c.op = ">=" -> ordered(PyLessEq(value, left))
          [] c.op = "<=" -> ordered(PyLessEq(left, value))
          [] OTHER -> "ValidationError"

\* the mutant of MatchFrom: one condition that holds is enough
RECURSIVE MatchFromAny(_, _, _)
MatchFromAny(row, prepared_where, i) ==
    IF i > Len(prepared_where) THEN (IF prepared_where = <<>> THEN "True" ELSE "False")
    ELSE LET r == MatchOne(row, prepared_where[i])
         IN  IF r = "False" THEN MatchFromAny(row, prepared_where, i + 1) ELSE r

\* PrimitiveDB._match: the conditions in order, False at the first that fails
RECURSIVE MatchFrom(_, _, _)
MatchFrom(row, prepared_where, i) ==
    IF i > Len(prepared_where) THEN "True"
    ELSE LET r == MatchOne(row, prepared_where[i])
         IN  IF r = "True" THEN MatchFrom(row, prepared_where, i + 1) ELSE r

_match(row, prepared_where) == MatchFrom(row, prepared_where, 1)

WhereTakenAsEmpty(tables, table, where) == [err |-> "ok", prepared |-> <<>>]

\* PrimitiveDB._coerce_where: [err, prepared]; the first condition that cannot be
\* coerced raises
_coerce_where(tables, table, where) ==
    IF where = <<>> THEN [err |-> "ok", prepared |-> <<>>]
    ELSE IF table \notin DOMAIN tables THEN [err |-> "TableNotFoundError", prepared |-> <<>>]
    ELSE
        LET schema == tables[table].schema
            one(cond) ==
                IF cond.field = ID THEN parse_scalar(cond.raw_value, "int")
                ELSE IF cond.field \notin DOMAIN schema THEN ErrV("ValidationError")
                ELSE parse_scalar(cond.raw_value, schema[cond.field])
            bad == {i \in DOMAIN where : IsErr(one(where[i]))}
        IN  IF bad # {}
            THEN [err |-> one(where[CHOOSE i \in bad : \A j \in bad : i <= j]).k,
                  prepared |-> <<>>]
            ELSE [err |-> "ok",
                  prepared |-> [i \in DOMAIN where |->
                                  Prepared(where[i].field, where[i].op, one(where[i]))]]

-----------------------------------------------------------------------------
(* primitive_db.core.PrimitiveDB. A handler is an operator from the state  *)
(* of the database (db) and its arguments to the state after the call and  *)
(* what the call returned. `fail` numbers the file write of the handler    *)
(* that the environment fails (0: none); a failed atomic write leaves the  *)
(* file as it was (storage._write_json_atomic).                            *)

\* what a call returned: err is "ok", the error reported by handle_db_errors,
\* or "cancelled" when the confirmation was refused
Res(op, table, err, id, rows, from_cache, count) ==
    [op |-> op, table |-> table, err |-> err, id |-> id, rows |-> rows,
     from_cache |-> from_cache, count |-> count]
Failed(op, table, err) == Res(op, table, err, 0, <<>>, FALSE, 0)
NoRes == Res("none", <<>>, "ok", 0, <<>>, FALSE, 0)

Out(db, r) == [db |-> db, res |-> r]

\* storage.load_table: a missing file reads as the empty list
load_table(fs, table) == IF table \in DOMAIN fs THEN fs[table] ELSE <<>>

\* PrimitiveDB._touch
_touch(vs, table) == Put(vs, table, (IF table \in DOMAIN vs THEN vs[table] ELSE 0) + 1)

\* self._versions.get(table, 0)
VersionOf(vs, table) == IF table \in DOMAIN vs THEN vs[table] ELSE 0

\* core.py line 188: the id an insert assigns
NextId(last_id, rows) == last_id + 1

\* PrimitiveDB.create_table
PrimitiveDB_create_table(db, table, columns, fail) ==
    LET fieldsBefore(i) == {columns[j][1] : j \in 1..(i - 1)}
        badCol(i) == \/ IsReserved(columns[i][1])
                     \/ columns[i][1] \in fieldsBefore(i)
                     \/ columns[i][2] \notin SUPPORTED_TYPES
        schema == [f \in {columns[i][1] : i \in DOMAIN columns} |->
                     columns[CHOOSE i \in DOMAIN columns : columns[i][1] = f][2]]
        meta1 == Put(db.meta, table, NewTable(schema))
    IN  IF ensure_identifier(table) # "ok" THEN Out(db, Failed("create_table", table, "ValidationError"))
        ELSE IF table \in DOMAIN db.meta THEN Out(db, Failed("create_table", table, "TableExistsError"))
        ELSE IF columns = <<>> THEN Out(db, Failed("create_table", table, "SchemaError"))
        ELSE IF \E i \in DOMAIN columns : badCol(i) THEN Out(db, Failed("create_table", table, "SchemaError"))
        ELSE IF fail = 1 THEN
            Out([db EXCEPT !.meta = meta1], Failed("create_table", table, "StorageError"))
        ELSE IF fail = 2 THEN
            Out([db EXCEPT !.meta = meta1, !.pmeta = meta1],
                Failed("create_table", table, "StorageError"))
        ELSE Out([db EXCEPT !.meta = meta1, !.pmeta = meta1,
                            !.files = Put(db.files, table, <<>>),
                            !.versions = Put(db.versions, table, 0)],
                 Res("create_table", table, "ok", 0, <<>>, FALSE, 0))

\* PrimitiveDB.drop_table under confirm_action
PrimitiveDB_drop_table(db, table, confirmed, fail) ==
    IF ~confirmed THEN Out(db, Failed("drop_table", table, "cancelled"))
    ELSE IF ensure_identifier(table) # "ok" THEN Out(db, Failed("drop_table", table, "ValidationError"))
    ELSE IF table \notin DOMAIN db.meta THEN Out(db, Failed("drop_table", table, "TableNotFoundError"))
    ELSE IF fail = 1 THEN
        Out([db EXCEPT !.files = Remove(db.files, table), !.meta = Remove(db.meta, table)],
            Failed("drop_table", table, "StorageError"))
    ELSE Out([db EXCEPT !.files = Remove(db.files, table),
                        !.meta = Remove(db.meta, table),
                        !.pmeta = Remove(db.meta, table),
                        !.versions = Remove(db.versions, table)],
             Res("drop_table", table, "ok", 0, <<>>, FALSE, 0))

\* the mutant of RaisedBeforeAssign: the id counter is raised before the values are checked
RaisedAfterAssign(db, table) ==
    [db EXCEPT !.meta = [t \in DOMAIN db.meta |->
                            IF t = table THEN [db.meta[t] EXCEPT !.last_id = @ + 1] ELSE db.meta[t]],
               !.pmeta = [t \in DOMAIN db.pmeta |->
                            IF t = table THEN [db.pmeta[t] EXCEPT !.last_id = @ + 1] ELSE db.pmeta[t]]]

\* the state in which insert raises on its values: the checks and coercions come
\* before the first assignment (core.py line 188, engine.py line 73)
RaisedBeforeAssign(db, table) == db

\* PrimitiveDB.insert
PrimitiveDB_insert(db, table, values, fail) ==
    IF ensure_identifier(table) # "ok" THEN Out(db, Failed("insert", table, "ValidationError"))
    ELSE IF table \notin DOMAIN db.meta THEN Out(db, Failed("insert", table, "TableNotFoundError"))
    ELSE
        LET schema == db.meta[table].schema
            missing == {f \in DOMAIN schema : f \notin DOMAIN values}
            extra == {f \in DOMAIN values : f \notin DOMAIN schema}
            cooked == [f \in DOMAIN schema |-> parse_scalar(values[f], schema[f])]
            rows0 == load_table(db.files, table)
            new_id == NextId(db.meta[table].last_id, rows0)
            row == Put(cooked, ID, IntV(new_id))
            meta1 == [db.meta EXCEPT ![table].last_id = new_id]
            rows == Append(rows0, row)
        IN  IF missing # {}
                THEN Out(RaisedBeforeAssign(db, table), Failed("insert", table, "ValidationError"))
            ELSE IF extra # {}
                THEN Out(RaisedBeforeAssign(db, table), Failed("insert", table, "ValidationError"))
            ELSE IF \E f \in DOMAIN schema : IsErr(cooked[f])
                THEN Out(RaisedBeforeAssign(db, table), Failed("insert", table, "ValidationError"))
            ELSE IF fail = 1 THEN
                Out([db EXCEPT !.meta = meta1], Failed("insert", table, "StorageError"))
            ELSE IF fail = 2 THEN
                Out([db EXCEPT !.meta = meta1, !.files = Put(db.files, table, rows)],
                    Failed("insert", table, "StorageError"))
            ELSE Out([db EXCEPT !.meta = meta1, !.pmeta = meta1,
                                !.files = Put(db.files, table, rows),
                                !.versions = _touch(db.versions, table)],
                     Res("insert", table, "ok", new_id, <<row>>, FALSE, 1))

\* select's compute(): the stored rows the prepared conditions match, in stored order;
\* [err, rows]
compute(fs, table, prepared_where) ==
    LET rows == load_table(fs, table)
        m(i) == _match(rows[i], prepared_where)
        raised == {i \in DOMAIN rows : m(i) \notin {"True", "False"}}
    IN  IF prepared_where = <<>> THEN [err |-> "ok", rows |-> rows]
        ELSE IF raised # {}
            THEN [err |-> m(CHOOSE i \in raised : \A j \in raised : i <= j), rows |-> <<>>]
        ELSE [err |-> "ok",
              rows |-> SelectIdx(rows, {i \in DOMAIN rows : m(i) = "True"}, 1)]

\* select's where_key: str() of the prepared list with repr() of each value is
\* one-to-one on prepared lists, so the list itself is the key
where_key(prepared_where) == prepared_where

\* PrimitiveDB.select through _make_select_cache.cached
PrimitiveDB_select(db, table, where) ==
    IF ensure_identifier(table) # "ok" THEN Out(db, Failed("select", table, "ValidationError"))
    ELSE IF table \notin DOMAIN db.meta THEN Out(db, Failed("select", table, "TableNotFoundError"))
    ELSE
        The({
        LET key == <<table, where_key(cw.prepared), VersionOf(db.versions, table)>>
        IN  IF cw.err # "ok" THEN Out(db, Failed("select", table, cw.err))
            ELSE IF key \in DOMAIN db.cache
                THEN Out(db, Res("select", table, "ok", 0, db.cache[key], TRUE, Len(db.cache[key])))
            ELSE The({
                IF c.err # "ok" THEN Out(db, Failed("select", table, c.err))
                ELSE Out([db EXCEPT !.cache = Put(db.cache, key, c.rows)],
                         Res("select", table, "ok", 0, c.rows, FALSE, Len(c.rows)))
                : c \in {compute(db.files, table, cw.prepared)}})
        : cw \in {_coerce_where(db.meta, table, where)}})

\* PrimitiveDB.update
PrimitiveDB_update(db, table, set_values, where, fail) ==
    IF ensure_identifier(table) # "ok" THEN Out(db, Failed("update", table, "ValidationError"))
    ELSE IF table \notin DOMAIN db.meta THEN Out(db, Failed("update", table, "TableNotFoundError"))
    ELSE
        The({
        LET schema == db.meta[table].schema
            prepared_set == [f \in DOMAIN set_values |-> parse_scalar(set_values[f], schema[f])]
            m(i) == IF cw.prepared = <<>> THEN "True" ELSE _match(rows[i], cw.prepared)
            raised == {i \in DOMAIN rows : m(i) \notin {"True", "False"}}
            hit == {i \in DOMAIN rows : m(i) = "True"}
            rows1 == [i \in DOMAIN rows |->
                        IF i \in hit
                        THEN Updated(rows[i], prepared_set)
                        ELSE rows[i]]
        IN  IF DOMAIN set_values = {} THEN Out(db, Failed("update", table, "ValidationError"))
            ELSE IF \E f \in DOMAIN set_values : IsReserved(f) \/ f \notin DOMAIN schema
                THEN Out(db, Failed("update", table, "ValidationError"))
            ELSE IF \E f \in DOMAIN set_values : IsErr(prepared_set[f])
                THEN Out(db, Failed("update", table, "ValidationError"))
            ELSE IF cw.err # "ok" THEN Out(db, Failed("update", table, cw.err))
            ELSE IF raised # {}
                THEN Out(db, Failed("update", table, m(CHOOSE i \in raised : \A j \in raised : i <= j)))
            ELSE IF fail = 1 THEN Out(db, Failed("update", table, "StorageError"))
            ELSE Out([db EXCEPT !.files = Put(db.files, table, rows1),
                                !.versions = _touch(db.versions, table)],
                     Res("update", table, "ok", 0, <<>>, FALSE, Cardinality(hit)))
        : cw \in {_coerce_where(db.meta, table, where)}, rows \in {load_table(db.files, table)}})

\* PrimitiveDB.delete; `confirmed` is the answer to ask_confirm, asked only when
\* there is no condition
PrimitiveDB_delete(db, table, where, confirmed, fail) ==
    IF ensure_identifier(table) # "ok" THEN Out(db, Failed("delete", table, "ValidationError"))
    ELSE IF table \notin DOMAIN db.meta THEN Out(db, Failed("delete", table, "TableNotFoundError"))
    ELSE
        The({
        LET m(i) == _match(rows[i], cw.prepared)
            raised == {i \in DOMAIN rows : m(i) \notin {"True", "False"}}
            kept == IF cw.prepared = <<>> THEN <<>>
                    ELSE SelectIdx(rows, {i \in DOMAIN rows : m(i) # "True"}, 1)
        IN  IF cw.err # "ok" THEN Out(db, Failed("delete", table, cw.err))
            ELSE IF cw.prepared = <<>> /\ ~confirmed
                THEN Out(db, Res("delete", table, "cancelled", 0, <<>>, FALSE, 0))
            ELSE IF cw.prepared # <<>> /\ raised # {}
                THEN Out(db, Failed("delete", table, m(CHOOSE i \in raised : \A j \in raised : i <= j)))
            ELSE IF fail = 1 THEN Out(db, Failed("delete", table, "StorageError"))
            ELSE Out([db EXCEPT !.files = Put(db.files, table, kept),
                                !.versions = _touch(db.versions, table)],
                     Res("delete", table, "ok", 0, <<>>, FALSE, Len(rows) - Len(kept)))
        : cw \in {_coerce_where(db.meta, table, where)}, rows \in {load_table(db.files, table)}})

\* PrimitiveDB.__init__: a new process on the files as they are
PrimitiveDB_init(db) ==
    [db EXCEPT !.meta = db.pmeta,
               !.versions = [t \in DOMAIN db.pmeta |-> 0],
               !.cache = EmptyMap]

-----------------------------------------------------------------------------
(* simple_json_db.where: Grammar B.                                        *)

\* str.replace(old, new): every occurrence, left to right, not overlapping
RECURSIVE ReplaceAll(_, _, _)
ReplaceAll(text, old, new) ==
    IF Len(text) < Len(old) THEN text
    ELSE IF SubSeq(text, 1, Len(old)) = old
        THEN new \o ReplaceAll(SubSeq(text, Len(old) + 1, Len(text)), old, new)
    ELSE <<text[1]>> \o ReplaceAll(Tail(text), old, new)

\* where._replace_single_equals: a lone "=" becomes "=="
_replace_single_equals(text) ==
    LET piece(i) ==
            IF text[i] # "=" THEN <<text[i]>>
            ELSE IF (i > 1 /\ text[i - 1] \in {"!", ">", "<", "="})
                    \/ (i < Len(text) /\ text[i + 1] = "=")
                THEN <<"=">>
            ELSE <<"=", "=">>
        join[i \in 0..Len(text)] == IF i = 0 THEN <<>> ELSE join[i - 1] \o piece(i)
    IN  join[Len(text)]

\* compile_where lines 35-38: the text handed to ast.parse
Normalize(expr) ==
    _replace_single_equals(
        ReplaceAll(ReplaceAll(Strip(expr), <<"=","t","r","u","e">>, <<"=","=","T","r","u","e">>),
                   <<"=","f","a","l","s","e">>, <<"=","=","F","a","l","s","e">>))

\* a node of a Python syntax tree: its class, its child nodes (positions in the
\* tree), for BoolOp and Compare the classes of its operators, for Name its id and for
\* Constant its value
Node(cls, kids, ops, id, value) ==
    [cls |-> cls, kids |-> kids, ops |-> ops, id |-> id, value |-> value]
Tree(nodes) == [err |-> "ok", nodes |-> nodes]
SyntaxError == [err |-> "SyntaxError", nodes |-> <<>>]

\* the where-texts of the model
WhereTexts ==
    { <<"a","g","e">>,
      <<"1">>,
      <<"'","x","'">>,
      <<"T","r","u","e">>,
      <<"a">>,
      <<"b">>,
      <<"N","o","n","e">>,
      <<"0">>,
      <<"F","a","l","s","e">>,
      <<"(","a",")">>,
      <<"i","s","_","a","c","t","i","v","e">>,
      <<"n","a","m","e">>,
      <<"a","=","1">>,
      <<"a","=","=","1">>,
      <<"a","!","=","1">>,
      <<"a",">","1">>,
      <<"a","<","1">>,
      <<"a",">","=","1">>,
      <<"a","<","=","1">>,
      <<"a","g","e",">","=","3","0"," ","a","n","d"," ","i","s","_","a","c","t","i","v","e","=","t","r","u","e">>,
      <<"a","=","1"," ","o","r"," ","b","=","2">>,
      <<"a","=","1"," ","a","n","d"," ","b","=","2">>,
      <<"n","a","m","e","=","'","x","'">>,
      <<"a"," ","="," ","t","r","u","e">>,
      <<"a","<","b">>,
      <<"a","!","=","t","r","u","e">>,
      <<"a",">","=">>,
      <<"f","(","1",")">>,
      <<"a",".","b">>,
      <<"a","[","0","]">>,
      <<"a","+","1">>,
      <<"-","a">>,
      <<"n","o","t"," ","a">>,
      <<"l","a","m","b","d","a",":"," ","1">>,
      <<"[","x"," ","f","o","r"," ","x"," ","i","n"," ","a","]">>,
      <<"a"," ","i","f"," ","b"," ","e","l","s","e"," ","c">>,
      <<"a"," ","i","s"," ","N","o","n","e">>,
      <<"a"," ","i","n"," ","b">>,
      <<"a","=","1"," ","a","n","d"," ","f","(","a",")">>,
      <<"a",".","b","=","1">>,
      <<"[","a","]">>,
      <<"a","=","-","1">> }

\* ast.parse(text, mode="eval") of CPython 3.11 on the normalized where-texts of the
\* model: the nodes in ast.walk order (breadth first), each with its child nodes in
\* ast.iter_child_nodes order; the operator and context objects (And, Eq, Load, ...)
\* are nodes of the tree
ast_parse(text) ==
    CASE text = <<"a","g","e">> ->
           Tree(<<Node("Expression", <<2>>, <<>>, <<>>, NoneV),
                  Node("Name", <<3>>, <<>>, <<"a","g","e">>, NoneV),
                  Node("Load", <<>>, <<>>, <<>>, NoneV)>>)
      [] text = <<"1">> ->
           Tree(<<Node("Expression", <<2>>, <<>>, <<>>, NoneV),
                  Node("Constant", <<>>, <<>>, <<>>, IntV(1))>>)
      [] text = <<"'","x","'">> ->
           Tree(<<Node("Expression", <<2>>, <<>>, <<>>, NoneV),
                  Node("Constant", <<>>, <<>>, <<>>, StrV(<<"x">>))>>)
      [] text = <<"T","r","u","e">> ->
           Tree(<<Node("Expression", <<2>>, <<>>, <<>>, NoneV),
                  Node("Constant", <<>>, <<>>, <<>>, BoolV(TRUE))>>)
      [] text = <<"a">> ->
           Tree(<<Node("Expression", <<2>>, <<>>, <<>>, NoneV),
                  Node("Name", <<3>>, <<>>, <<"a">>, NoneV),
                  Node("Load", <<>>, <<>>, <<>>, NoneV)>>)
      [] text = <<"b">> ->
           Tree(<<Node("Expression", <<2>>, <<>>, <<>>, NoneV),
                  Node("Name", <<3>>, <<>>, <<"b">>, NoneV),
                  Node("Load", <<>>, <<>>, <<>>, NoneV)>>)
      [] text = <<"N","o","n","e">> ->
           Tree(<<Node("Expression", <<2>>, <<>>, <<>>, NoneV),
                  Node("Constant", <<>>, <<>>, <<>>, NoneV)>>)
      [] text = <<"0">> ->
           Tree(<<Node("Expression", <<2>>, <<>>, <<>>, NoneV),
                  Node("Constant", <<>>, <<>>, <<>>, IntV(0))>>)
      [] text = <<"F","a","l","s","e">> ->
           Tree(<<Node("Expression", <<2>>, <<>>, <<>>, NoneV),
                  Node("Constant", <<>>, <<>>, <<>>, BoolV(FALSE))>>)
      [] text = <<"(","a",")">> ->
           Tree(<<Node("Expression", <<2>>, <<>>, <<>>, NoneV),
                  Node("Name", <<3>>, <<>>, <<"a">>, NoneV),
                  Node("Load", <<>>, <<>>, <<>>, NoneV)>>)
      [] text = <<"i","s","_","a","c","t","i","v","e">> ->
           Tree(<<Node("Expression", <<2>>, <<>>, <<>>, NoneV),
                  Node("Name", <<3>>, <<>>, <<"i","s","_","a","c","t","i","v","e">>, NoneV),
                  Node("Load", <<>>, <<>>, <<>>, NoneV)>>)
      [] text = <<"n","a","m","e">> ->
           Tree(<<Node("Expression", <<2>>, <<>>, <<>>, NoneV),
                  Node("Name", <<3>>, <<>>, <<"n","a","m","e">>, NoneV),
                  Node("Load", <<>>, <<>>, <<>>, NoneV)>>)
      [] text = <<"a","=","=","1">> ->
           Tree(<<Node("Expression", <<2>>, <<>>, <<>>, NoneV),
                  Node("Compare", <<3,4,5>>, <<"Eq">>, <<>>, NoneV),
                  Node("Name", <<6>>, <<>>, <<"a">>, NoneV),
                  Node("Eq", <<>>, <<>>, <<>>, NoneV),
                  Node("Constant", <<>>, <<>>, <<>>, IntV(1)),
                  Node("Load", <<>>, <<>>, <<>>, NoneV)>>)
      [] text = <<"a","!","=","1">> ->
           Tree(<<Node("Expression", <<2>>, <<>>, <<>>, NoneV),
                  Node("Compare", <<3,4,5>>, <<"NotEq">>, <<>>, NoneV),
                  Node("Name", <<6>>, <<>>, <<"a">>, NoneV),
                  Node("NotEq", <<>>, <<>>, <<>>, NoneV),
                  Node("Constant", <<>>, <<>>, <<>>, IntV(1)),
                  Node("Load", <<>>, <<>>, <<>>, NoneV)>>)
      [] text = <<"a",">","1">> ->
           Tree(<<Node("Expression", <<2>>, <<>>, <<>>, NoneV),
                  Node("Compare", <<3,4,5>>, <<"Gt">>, <<>>, NoneV),
                  Node("Name", <<6>>, <<>>, <<"a">>, NoneV),
                  Node("Gt", <<>>, <<>>, <<>>, NoneV),
                  Node("Constant", <<>>, <<>>, <<>>, IntV(1)),
                  Node("Load", <<>>, <<>>, <<>>, NoneV)>>)
      [] text = <<"a","<","1">> ->
           Tree(<<Node("Expression", <<2>>, <<>>, <<>>, NoneV),
                  Node("Compare", <<3,4,5>>, <<"Lt">>, <<>>, NoneV),
                  Node("Name", <<6>>, <<>>, <<"a">>, NoneV),
                  Node("Lt", <<>>, <<>>, <<>>, NoneV),
                  Node("Constant", <<>>, <<>>, <<>>, IntV(1)),
                  Node("Load", <<>>, <<>>, <<>>, NoneV)>>)
      [] text = <<"a",">","=","1">> ->
           Tree(<<Node("Expression", <<2>>, <<>>, <<>>, NoneV),
                  Node("Compare", <<3,4,5>>, <<"GtE">>, <<>>, NoneV),
                  Node("Name", <<6>>, <<>>, <<"a">>, NoneV),
                  Node("GtE", <<>>, <<>>, <<>>, NoneV),
                  Node("Constant", <<>>, <<>>, <<>>, IntV(1)),
                  Node("Load", <<>>, <<>>, <<>>, NoneV)>>)
      [] text = <<"a","<","=","1">> ->
           Tree(<<Node("Expression", <<2>>, <<>>, <<>>, NoneV),
                  Node("Compare", <<3,4,5>>, <<"LtE">>, <<>>, NoneV),
                  Node("Name", <<6>>, <<>>, <<"a">>, NoneV),
                  Node("LtE", <<>>, <<>>, <<>>, NoneV),
                  Node("Constant", <<>>, <<>>, <<>>, IntV(1)),
                  Node("Load", <<>>, <<>>, <<>>, NoneV)>>)
      [] text = <<"a","g","e",">","=","3","0"," ","a","n","d"," ","i","s","_","a","c","t","i","v","e","=","=","T","r","u","e">> ->
           Tree(<<Node("Expression", <<2>>, <<>>, <<>>, NoneV),
                  Node("BoolOp", <<3,4,5>>, <<"And">>, <<>>, NoneV),
                  Node("And", <<>>, <<>>, <<>>, NoneV),
                  Node("Compare", <<6,7,8>>, <<"GtE">>, <<>>, NoneV),
                  Node("Compare", <<9,10,11>>, <<"Eq">>, <<>>, NoneV),
                  Node("Name", <<13>>, <<>>, <<"a","g","e">>, NoneV),
                  Node("GtE", <<>>, <<>>, <<>>, NoneV),
                  Node("Constant", <<>>, <<>>, <<>>, IntV(30)),
                  Node("Name", <<13>>, <<>>, <<"i","s","_","a","c","t","i","v","e">>, NoneV),
                  Node("Eq", <<>>, <<>>, <<>>, NoneV),
                  Node("Constant", <<>>, <<>>, <<>>, BoolV(TRUE)),
                  Node("Load", <<>>, <<>>, <<>>, NoneV),
                  Node("Load", <<>>, <<>>, <<>>, NoneV)>>)
      [] text = <<"a","=","=","1"," ","o","r"," ","b","=","=","2">> ->
           Tree(<<Node("Expression", <<2>>, <<>>, <<>>, NoneV),
                  Node("BoolOp", <<3,4,5>>, <<"Or">>, <<>>, NoneV),
                  Node("Or", <<>>, <<>>, <<>>, NoneV),
                  Node("Compare", <<6,10,8>>, <<"Eq">>, <<>>, NoneV),
                  Node("Compare", <<9,10,11>>, <<"Eq">>, <<>>, NoneV),
                  Node("Name", <<13>>, <<>>, <<"a">>, NoneV),
                  Node("Eq", <<>>, <<>>, <<>>, NoneV),
                  Node("Constant", <<>>, <<>>, <<>>, IntV(1)),
                  Node("Name", <<13>>, <<>>, <<"b">>, NoneV),
                  Node("Eq", <<>>, <<>>, <<>>, NoneV),
                  Node("Constant", <<>>, <<>>, <<>>, IntV(2)),
                  Node("Load", <<>>, <<>>, <<>>, NoneV),
                  Node("Load", <<>>, <<>>, <<>>, NoneV)>>)
      [] text = <<"a","=","=","1"," ","a","n","d"," ","b","=","=","2">> ->
           Tree(<<Node("Expression", <<2>>, <<>>, <<>>, NoneV),
                  Node("BoolOp", <<3,4,5>>, <<"And">>, <<>>, NoneV),
                  Node("And", <<>>, <<>>, <<>>, NoneV),
                  Node("Compare", <<6,10,8>>, <<"Eq">>, <<>>, NoneV),
                  Node("Compare", <<9,10,11>>, <<"Eq">>, <<>>, NoneV),
                  Node("Name", <<13>>, <<>>, <<"a">>, NoneV),
                  Node("Eq", <<>>, <<>>, <<>>, NoneV),
                  Node("Constant", <<>>, <<>>, <<>>, IntV(1)),
                  Node("Name", <<13>>, <<>>, <<"b">>, NoneV),
                  Node("Eq", <<>>, <<>>, <<>>, NoneV),
                  Node("Constant", <<>>, <<>>, <<>>, IntV(2)),
                  Node("Load", <<>>, <<>>, <<>>, NoneV),
                  Node("Load", <<>>, <<>>, <<>>, NoneV)>>)
      [] text = <<"n","a","m","e","=","=","'","x","'">> ->
           Tree(<<Node("Expression", <<2>>, <<>>, <<>>, NoneV),
                  Node("Compare", <<3,4,5>>, <<"Eq">>, <<>>, NoneV),
                  Node("Name", <<6>>, <<>>, <<"n","a","m","e">>, NoneV),
                  Node("Eq", <<>>, <<>>, <<>>, NoneV),
                  Node("Constant", <<>>, <<>>, <<>>, StrV(<<"x">>)),
                  Node("Load", <<>>, <<>>, <<>>, NoneV)>>)
      [] text = <<"a"," ","=","="," ","t","r","u","e">> ->
           Tree(<<Node("Expression", <<2>>, <<>>, <<>>, NoneV),
                  Node("Compare", <<3,4,5>>, <<"Eq">>, <<>>, NoneV),
                  Node("Name", <<7>>, <<>>, <<"a">>, NoneV),
                  Node("Eq", <<>>, <<>>, <<>>, NoneV),
                  Node("Name", <<7>>, <<>>, <<"t","r","u","e">>, NoneV),
                  Node("Load", <<>>, <<>>, <<>>, NoneV),
                  Node("Load", <<>>, <<>>, <<>>, NoneV)>>)
      [] text = <<"a","<","b">> ->
           Tree(<<Node("Expression", <<2>>, <<>>, <<>>, NoneV),
                  Node("Compare", <<3,4,5>>, <<"Lt">>, <<>>, NoneV),
                  Node("Name", <<7>>, <<>>, <<"a">>, NoneV),
                  Node("Lt", <<>>, <<>>, <<>>, NoneV),
                  Node("Name", <<7>>, <<>>, <<"b">>, NoneV),
                  Node("Load", <<>>, <<>>, <<>>, NoneV),
                  Node("Load", <<>>, <<>>, <<>>, NoneV)>>)
      [] text = <<"a","!","=","=","T","r","u","e">> ->
           SyntaxError
      [] text = <<"a",">","=">> ->
           SyntaxError
      [] text = <<"f","(","1",")">> ->
           Tree(<<Node("Expression", <<2>>, <<>>, <<>>, NoneV),
                  Node("Call", <<3,4>>, <<>>, <<>>, NoneV),
                  Node("Name", <<5>>, <<>>, <<"f">>, NoneV),
                  Node("Constant", <<>>, <<>>, <<>>, IntV(1)),
                  Node("Load", <<>>, <<>>, <<>>, NoneV)>>)
      [] text = <<"a",".","b">> ->
           Tree(<<Node("Expression", <<2>>, <<>>, <<>>, NoneV),
                  Node("Attribute", <<3,5>>, <<>>, <<>>, NoneV),
                  Node("Name", <<5>>, <<>>, <<"a">>, NoneV),
                  Node("Load", <<>>, <<>>, <<>>, NoneV),
                  Node("Load", <<>>, <<>>, <<>>, NoneV)>>)
      [] text = <<"a","[","0","]">> ->
           Tree(<<Node("Expression", <<2>>, <<>>, <<>>, NoneV),
                  Node("Subscript", <<3,4,6>>, <<>>, <<>>, NoneV),
                  Node("Name", <<6>>, <<>>, <<"a">>, NoneV),
                  Node("Constant", <<>>, <<>>, <<>>, IntV(0)),
                  Node("Load", <<>>, <<>>, <<>>, NoneV),
                  Node("Load", <<>>, <<>>, <<>>, NoneV)>>)
      [] text = <<"a","+","1">> ->
           Tree(<<Node("Expression", <<2>>, <<>>, <<>>, NoneV),
                  Node("BinOp", <<3,4,5>>, <<>>, <<>>, NoneV),
                  Node("Name", <<6>>, <<>>, <<"a">>, NoneV),
                  Node("Add", <<>>, <<>>, <<>>, NoneV),
                  Node("Constant", <<>>, <<>>, <<>>, IntV(1)),
                  Node("Load", <<>>, <<>>, <<>>, NoneV)>>)
      [] text = <<"-","a">> ->
           Tree(<<Node("Expression", <<2>>, <<>>, <<>>, NoneV),
                  Node("UnaryOp", <<3,4>>, <<>>, <<>>, NoneV),
                  Node("USub", <<>>, <<>>, <<>>, NoneV),
                  Node("Name", <<5>>, <<>>, <<"a">>, NoneV),
                  Node("Load", <<>>, <<>>, <<>>, NoneV)>>)
      [] text = <<"n","o","t"," ","a">> ->
           Tree(<<Node("Expression", <<2>>, <<>>, <<>>, NoneV),
                  Node("UnaryOp", <<3,4>>, <<>>, <<>>, NoneV),
                  Node("Not", <<>>, <<>>, <<>>, NoneV),
                  Node("Name", <<5>>, <<>>, <<"a">>, NoneV),
                  Node("Load", <<>>, <<>>, <<>>, NoneV)>>)
      [] text = <<"l","a","m","b","d","a",":"," ","1">> ->
           Tree(<<Node("Expression", <<2>>, <<>>, <<>>, NoneV),
                  Node("Lambda", <<3,4>>, <<>>, <<>>, NoneV),
                  Node("arguments", <<>>, <<>>, <<>>, NoneV),
                  Node("Constant", <<>>, <<>>, <<>>, IntV(1))>>)
      [] text = <<"[","x"," ","f","o","r"," ","x"," ","i","n"," ","a","]">> ->
           Tree(<<Node("Expression", <<2>>, <<>>, <<>>, NoneV),
                  Node("ListComp", <<3,4>>, <<>>, <<>>, NoneV),
                  Node("Name", <<9>>, <<>>, <<"x">>, NoneV),
                  Node("comprehension", <<6,7>>, <<>>, <<>>, NoneV),
                  Node("Load", <<>>, <<>>, <<>>, NoneV),
                  Node("Name", <<8>>, <<>>, <<"x">>, NoneV),
                  Node("Name", <<9>>, <<>>, <<"a">>, NoneV),
                  Node("Store", <<>>, <<>>, <<>>, NoneV),
                  Node("Load", <<>>, <<>>, <<>>, NoneV)>>)
      [] text = <<"a"," ","i","f"," ","b"," ","e","l","s","e"," ","c">> ->
           Tree(<<Node("Expression", <<2>>, <<>>, <<>>, NoneV),
                  Node("IfExp", <<3,4,5>>, <<>>, <<>>, NoneV),
                  Node("Name", <<8>>, <<>>, <<"b">>, NoneV),
                  Node("Name", <<8>>, <<>>, <<"a">>, NoneV),
                  Node("Name", <<8>>, <<>>, <<"c">>, NoneV),
                  Node("Load", <<>>, <<>>, <<>>, NoneV),
                  Node("Load", <<>>, <<>>, <<>>, NoneV),
                  Node("Load", <<>>, <<>>, <<>>, NoneV)>>)
      [] text = <<"a"," ","i","s"," ","N","o","n","e">> ->
           Tree(<<Node("Expression", <<2>>, <<>>, <<>>, NoneV),
                  Node("Compare", <<3,4,5>>, <<"Is">>, <<>>, NoneV),
                  Node("Name", <<6>>, <<>>, <<"a">>, NoneV),
                  Node("Is", <<>>, <<>>, <<>>, NoneV),
                  Node("Constant", <<>>, <<>>, <<>>, NoneV),
                  Node("Load", <<>>, <<>>, <<>>, NoneV)>>)
      [] text = <<"a"," ","i","n"," ","b">> ->
           Tree(<<Node("Expression", <<2>>, <<>>, <<>>, NoneV),
                  Node("Compare", <<3,4,5>>, <<"In">>, <<>>, NoneV),
                  Node("Name", <<7>>, <<>>, <<"a">>, NoneV),
                  Node("In", <<>>, <<>>, <<>>, NoneV),
                  Node("Name", <<7>>, <<>>, <<"b">>, NoneV),
                  Node("Load", <<>>, <<>>, <<>>, NoneV),
                  Node("Load", <<>>, <<>>, <<>>, NoneV)>>)
      [] text = <<"a","=","=","1"," ","a","n","d"," ","f","(","a",")">> ->
           Tree(<<Node("Expression", <<2>>, <<>>, <<>>, NoneV),
                  Node("BoolOp", <<3,4,5>>, <<"And">>, <<>>, NoneV),
                  Node("And", <<>>, <<>>, <<>>, NoneV),
                  Node("Compare", <<6,7,8>>, <<"Eq">>, <<>>, NoneV),
                  Node("Call", <<9,10>>, <<>>, <<>>, NoneV),
                  Node("Name", <<13>>, <<>>, <<"a">>, NoneV),
                  Node("Eq", <<>>, <<>>, <<>>, NoneV),
                  Node("Constant", <<>>, <<>>, <<>>, IntV(1)),
                  Node("Name", <<13>>, <<>>, <<"f">>, NoneV),
                  Node("Name", <<13>>, <<>>, <<"a">>, NoneV),
                  Node("Load", <<>>, <<>>, <<>>, NoneV),
                  Node("Load", <<>>, <<>>, <<>>, NoneV),
                  Node("Load", <<>>, <<>>, <<>>, NoneV)>>)
      [] text = <<"a",".","b","=","=","1">> ->
           Tree(<<Node("Expression", <<2>>, <<>>, <<>>, NoneV),
                  Node("Compare", <<3,4,5>>, <<"Eq">>, <<>>, NoneV),
                  Node("Attribute", <<6,8>>, <<>>, <<>>, NoneV),
                  Node("Eq", <<>>, <<>>, <<>>, NoneV),
                  Node("Constant", <<>>, <<>>, <<>>, IntV(1)),
                  Node("Name", <<8>>, <<>>, <<"a">>, NoneV),
                  Node("Load", <<>>, <<>>, <<>>, NoneV),
                  Node("Load", <<>>, <<>>, <<>>, NoneV)>>)
      [] text = <<"[","a","]">> ->
           Tree(<<Node("Expression", <<2>>, <<>>, <<>>, NoneV),
                  Node("List", <<3,5>>, <<>>, <<>>, NoneV),
                  Node("Name", <<5>>, <<>>, <<"a">>, NoneV),
                  Node("Load", <<>>, <<>>, <<>>, NoneV),
                  Node("Load", <<>>, <<>>, <<>>, NoneV)>>)
      [] text = <<"a","=","=","-","1">> ->
           Tree(<<Node("Expression", <<2>>, <<>>, <<>>, NoneV),
                  Node("Compare", <<3,4,5>>, <<"Eq">>, <<>>, NoneV),
                  Node("Name", <<6>>, <<>>, <<"a">>, NoneV),
                  Node("Eq", <<>>, <<>>, <<>>, NoneV),
                  Node("UnaryOp", <<7,8>>, <<>>, <<>>, NoneV),
                  Node("Load", <<>>, <<>>, <<>>, NoneV),
                  Node("USub", <<>>, <<>>, <<>>, NoneV),
                  Node("Constant", <<>>, <<>>, <<>>, IntV(1))>>)

_ALLOWED_BOOL_OPS == {"And", "Or"}
_ALLOWED_CMPOPS == {"Eq", "NotEq", "Lt", "LtE", "Gt", "GtE"}

\* the mutant of NodeAllowed: every node class not named by a rule is let through
NodeAllowedByDefault(n) ==
    CASE n.cls = "BoolOp" -> \A k \in DOMAIN n.ops : n.ops[k] \in _ALLOWED_BOOL_OPS
      [] n.cls = "Compare" -> \A k \in DOMAIN n.ops : n.ops[k] \in _ALLOWED_CMPOPS
      [] OTHER -> TRUE

\* one round of the loop of _validate_ast: whether node n is passed over (continue)
\* rather than rejected (raise WhereError)
NodeAllowed(n) ==
    CASE n.cls = "Expression" -> TRUE
      [] n.cls = "BoolOp" -> \A k \in DOMAIN n.ops : n.ops[k] \in _ALLOWED_BOOL_OPS
      [] n.cls = "Compare" -> \A k \in DOMAIN n.ops : n.ops[k] \in _ALLOWED_CMPOPS
      [] n.cls = "Name" -> TRUE
      [] n.cls = "Constant" -> TRUE
      [] n.cls = "Load" -> TRUE
      [] OTHER -> FALSE

\* where._validate_ast over ast.walk(node): "ok" or the error raised
_validate_ast(tree) ==
    IF \A i \in DOMAIN tree.nodes : NodeAllowed(tree.nodes[i]) THEN "ok" ELSE "WhereError"

\* a comparison of two values by the operator class: "True", "False" or "TypeError"
PyCompare(opcls, a, b) ==
    LET none == a.k = "None" \/ b.k = "None"
        neg(r) == IF r = "True" THEN "False" ELSE IF r = "False" THEN "True" ELSE r
        \* a > b and a >= b are b < a and b <= a
        x == IF opcls \in {"Gt", "GtE"} THEN b ELSE a
        y == IF opcls \in {"Gt", "GtE"} THEN a ELSE b
    IN  CASE opcls \in {"Eq", "NotEq"} -> IF PyEq(a, b) = (opcls = "Eq") THEN "True" ELSE "False"
          [] opcls \in {"Lt", "Gt"} -> IF none THEN "TypeError" ELSE PyLess(x, y)
          [] opcls \in {"LtE", "GtE"} -> IF none THEN "TypeError" ELSE PyLessEq(x, y)
          [] OTHER -> "TypeError"

\* eval(code, {"__builtins__": {}}, env) on the node at position i: a value, or the
\* error raised
RECURSIVE EvalNode(_, _, _), CompareChain(_, _, _, _, _), BoolChain(_, _, _, _)
EvalNode(nodes, i, env) ==
    LET n == nodes[i]
    IN  CASE n.cls = "Expression" -> EvalNode(nodes, n.kids[1], env)
          [] n.cls = "Name" -> IF n.id \in DOMAIN env THEN env[n.id] ELSE ErrV("NameError")
          [] n.cls = "Constant" -> n.value
          [] n.cls = "Compare" ->
                LET left == EvalNode(nodes, n.kids[1], env)
                IN  IF IsErr(left) THEN left ELSE CompareChain(nodes, n, 1, left, env)
          [] n.cls = "BoolOp" -> BoolChain(nodes, n, 2, env)
          [] OTHER -> ErrV("TypeError")

\* a (chained) comparison from its j-th operator on
CompareChain(nodes, n, j, left, env) ==
    IF j > Len(n.ops) THEN BoolV(TRUE)
    ELSE LET right == EvalNode(nodes, n.kids[1 + Len(n.ops) + j], env)
             c == PyCompare(n.ops[j], left, right)
         IN  IF IsErr(right) THEN right
             ELSE IF c = "TypeError" THEN ErrV("TypeError")
             ELSE IF c = "False" THEN BoolV(FALSE)
             ELSE CompareChain(nodes, n, j + 1, right, env)

\* and / or from the operand at kids[j] on: the value of the deciding operand
BoolChain(nodes, n, j, env) ==
    LET v == EvalNode(nodes, n.kids[j], env)
    IN  IF IsErr(v) \/ j = Len(n.kids) THEN v
        ELSE IF n.ops[1] = "And" THEN (IF Truthy(v) THEN BoolChain(nodes, n, j + 1, env) ELSE v)
        ELSE (IF Truthy(v) THEN v ELSE BoolChain(nodes, n, j + 1, env))

\* where.CompiledWhere, or the WhereError raised; always: the lambda of the empty text
Compiled(err, always, tree) == [err |-> err, always |-> always, tree |-> tree]

\* where.compile_where
compile_where(expr) ==
    IF Strip(expr) = <<>> THEN Compiled("ok", TRUE, SyntaxError)
    ELSE The({IF node.err # "ok" THEN Compiled("WhereError", FALSE, node)
              ELSE IF _validate_ast(node) # "ok" THEN Compiled("WhereError", FALSE, node)
              ELSE Compiled("ok", FALSE, node)
              : node \in {The({ast_parse(normalized) : normalized \in {Normalize(expr)}})}})

\* compile_where._predicate: the names True and False join the fields of the row
_predicate(cw, row) ==
    IF cw.always THEN BoolV(TRUE)
    ELSE LET env == Put(Put(row, <<"T","r","u","e">>, BoolV(TRUE)),
                        <<"F","a","l","s","e">>, BoolV(FALSE))
             v == EvalNode(cw.tree.nodes, 1, env)
         IN  IF IsErr(v) THEN v ELSE BoolV(Truthy(v))

-----------------------------------------------------------------------------
(* simple_json_db: types, schema, engine. The metadata file holds          *)
(* {"tables": {name: fields}, "counters": {name: int}}; both dicts gain    *)
(* and lose a name together and are modelled as one map name ->            *)
(* [schema, last_id]. DBEngine keeps nothing in memory between calls.      *)
(* StoragePaths.for_project puts the rows files into the directory of      *)
(* meta.json, so the rows file of a table named meta is meta.json itself:  *)
(* files[META] is present exactly when meta.json holds a list, and pmeta   *)
(* is then empty. storage.write_json writes the file in place: a write     *)
(* refused when the file is opened leaves the file as it was, a write      *)
(* that fails after the file was opened leaves it cut off (torn), and a    *)
(* torn file is unreadable until a later write replaces it. A torn file    *)
(* keeps no content: pmeta is empty while META is torn and files[t] is     *)
(* empty while t is torn.                                                  *)

\* types._to_bool
_to_bool(raw) ==
    LET value == Lower(Strip(raw))
    IN  IF value \in {<<"t","r","u","e">>, <<"1">>, <<"y","e","s">>, <<"y">>} THEN BoolV(TRUE)
        ELSE IF value \in {<<"f","a","l","s","e">>, <<"0">>, <<"n","o">>, <<"n">>} THEN BoolV(FALSE)
        ELSE ErrV("TypeErrorDB")

\* types.cast_value
cast_value(type_name, raw) ==
    CASE type_name = "str" -> StrV(raw)
      [] type_name = "int" -> IF IntLiteralOk(raw) THEN IntV(IntLiteralValue(raw)) ELSE ErrV("TypeErrorDB")
      [] type_name = "float" -> The({IF IsErr(value) THEN ErrV("TypeErrorDB") ELSE value
                                     : value \in {FloatLiteral(raw)}})
      [] type_name = "bool" -> _to_bool(raw)
      [] OTHER -> ErrV("TypeErrorDB")

\* the mutant of validate_insert: the fields given are stored as they come, without the
\* test for unknown and missing fields
validate_insert_unchecked(fields, data) ==
    [err |-> "ok",
     cooked |-> [f \in DOMAIN data |->
                   IF f \in DOMAIN fields THEN cast_value(fields[f], data[f]) ELSE StrV(data[f])]]

\* TableSchema.validate_insert: [err, cooked]
validate_insert(fields, data) ==
    IF DOMAIN data \ DOMAIN fields # {} THEN [err |-> "SchemaError", cooked |-> EmptyMap]
    ELSE IF DOMAIN fields \ DOMAIN data # {} THEN [err |-> "SchemaError", cooked |-> EmptyMap]
    ELSE LET cooked == [f \in DOMAIN fields |-> cast_value(fields[f], data[f])]
         IN  IF \E f \in DOMAIN fields : IsErr(cooked[f])
             THEN [err |-> "TypeErrorDB", cooked |-> EmptyMap]
             ELSE [err |-> "ok", cooked |-> cooked]

\* TableSchema.validate_update: [err, cooked]
validate_update(fields, data) ==
    IF DOMAIN data \ DOMAIN fields # {} THEN [err |-> "SchemaError", cooked |-> EmptyMap]
    ELSE LET cooked == [f \in DOMAIN data |-> cast_value(fields[f], data[f])]
         IN  IF \E f \in DOMAIN data : IsErr(cooked[f])
             THEN [err |-> "TypeErrorDB", cooked |-> EmptyMap]
             ELSE [err |-> "ok", cooked |-> cooked]

\* the type name written by a text
TypeName(text) ==
    CASE text = <<"i","n","t">> -> "int"
      [] text = <<"f","l","o","a","t">> -> "float"
      [] text = <<"s","t","r">> -> "str"
      [] text = <<"b","o","o","l">> -> "bool"
      [] OTHER -> "unsupported"

\* TableSchema.parse_schema_parts: [err, fields]
parse_schema_parts(parts) ==
    LET field(i) == Strip(SplitFirst(parts[i], <<":">>)[1])
        type_name(i) == TypeName(Strip(SplitFirst(parts[i], <<":">>)[2]))
        bad(i) == \/ ~Contains(<<":">>, parts[i])
                  \/ field(i) = <<>>
                  \/ type_name(i) \notin SUPPORTED_TYPES
                  \/ IsReserved(field(i))
                  \/ \E j \in 1..(i - 1) : field(j) = field(i)
    IN  IF \E i \in DOMAIN parts : bad(i) THEN [err |-> "SchemaError", fields |-> EmptyMap]
        ELSE IF parts = <<>> THEN [err |-> "SchemaError", fields |-> EmptyMap]
        ELSE [err |-> "ok",
              fields |-> [f \in {field(i) : i \in DOMAIN parts} |->
                            type_name(CHOOSE i \in DOMAIN parts : field(i) = f)]]

META == <<"m","e","t","a">>

\* iterating the dict of meta.json yields its two keys
MetaKeys == <<StrV(<<"t","a","b","l","e","s">>), StrV(<<"c","o","u","n","t","e","r","s">>)>>

\* the write fail names, as the k-th write of a handler meets it: fail = k is refused
\* when the file is opened, fail = -k fails after the file was opened
Mode(fail, k) == IF fail = k THEN "refused" ELSE IF fail = 0 - k THEN "cut" ELSE "done"

\* storage.write_json(paths.meta, {"tables": ..., "counters": ...})
write_meta(db, tables, mode) ==
    CASE mode = "refused" -> db
      [] mode = "cut" -> [db EXCEPT !.pmeta = EmptyMap, !.files = Remove(@, META),
                                    !.torn = @ \cup {META}]
      [] OTHER -> [db EXCEPT !.pmeta = tables, !.files = Remove(@, META), !.torn = @ \ {META}]

\* storage.write_json(table_path(paths, table), rows)
write_rows(db, table, rows, mode) ==
    CASE mode = "refused" -> db
      [] mode = "cut" /\ table = META -> write_meta(db, EmptyMap, "cut")
      [] mode = "cut" -> [db EXCEPT !.files = Put(@, table, <<>>), !.torn = @ \cup {table}]
      [] table = META -> [db EXCEPT !.pmeta = EmptyMap, !.files = Put(@, META, rows),
                                    !.torn = @ \ {META}]
      [] OTHER -> [db EXCEPT !.files = Put(@, table, rows), !.torn = @ \ {table}]

\* DBEngine._meta() followed by meta["tables"]: the error raised, or "ok" when
\* db.pmeta is what meta["tables"] and meta["counters"] hold
_meta(db) ==
    IF META \in db.torn THEN "StorageError"
    ELSE IF META \in DOMAIN db.files THEN "TypeError"
    ELSE "ok"

\* DBEngine._schema: the error raised, or "ok"
_schema(db, table) ==
    IF _meta(db) # "ok" THEN _meta(db)
    ELSE IF table \notin DOMAIN db.pmeta THEN "EngineError"
    ELSE "ok"

\* DBEngine._init_meta, all that DBEngine.open does to the files: a list in meta.json
\* has neither key and is replaced by the empty metadata
DBEngine_open(db, fail) ==
    IF META \in db.torn THEN Out(db, Failed("open", <<>>, "StorageError"))
    ELSE IF Mode(fail, 1) # "done"
        THEN Out(write_meta(db, db.pmeta, Mode(fail, 1)), Failed("open", <<>>, "StorageError"))
    ELSE Out(write_meta(db, db.pmeta, "done"), Res("open", <<>>, "ok", 0, <<>>, FALSE, 0))

\* DBEngine.create_table
DBEngine_create_table(db, name, schema_parts, fail) ==
    The({
    LET meta1 == Put(db.pmeta, name, NewTable(ps.fields))
        saved == write_meta(db, meta1, Mode(fail, 1))
        written == write_rows(saved, name, <<>>, Mode(fail, 2))
    IN  IF _meta(db) # "ok" THEN Out(db, Failed("create_table", name, _meta(db)))
        ELSE IF name \in DOMAIN db.pmeta THEN Out(db, Failed("create_table", name, "EngineError"))
        ELSE IF ps.err # "ok" THEN Out(db, Failed("create_table", name, ps.err))
        ELSE IF Mode(fail, 1) # "done" THEN Out(saved, Failed("create_table", name, "StorageError"))
        ELSE IF Mode(fail, 2) # "done" THEN Out(written, Failed("create_table", name, "StorageError"))
        ELSE Out(written, Res("create_table", name, "ok", 0, <<>>, FALSE, 0))
    : ps \in {parse_schema_parts(schema_parts)}})

\* tp.unlink() when tp.exists(): without meta.json the metadata is read as empty
unlink(db, name) ==
    IF name = META THEN [db EXCEPT !.pmeta = EmptyMap, !.files = Remove(@, META), !.torn = @ \ {META}]
    ELSE [db EXCEPT !.files = Remove(@, name), !.torn = @ \ {name}]

\* DBEngine.drop_table
DBEngine_drop_table(db, name, fail) ==
    IF _schema(db, name) # "ok" THEN Out(db, Failed("drop_table", name, _schema(db, name)))
    ELSE IF Mode(fail, 1) # "done"
        THEN Out(write_meta(db, Remove(db.pmeta, name), Mode(fail, 1)),
                 Failed("drop_table", name, "StorageError"))
    ELSE Out(unlink(write_meta(db, Remove(db.pmeta, name), "done"), name),
             Res("drop_table", name, "ok", 0, <<>>, FALSE, 0))

\* DBEngine.insert
DBEngine_insert(db, table, raw_pairs, fail) ==
    IF _schema(db, table) # "ok" THEN Out(db, Failed("insert", table, _schema(db, table)))
    ELSE
        The({
        LET rows0 == load_table(db.files, table)
            row_id == NextId(db.pmeta[table].last_id, rows0)
            payload == Put(v.cooked, ID, IntV(row_id))
            rows == Append(rows0, payload)
            meta1 == [db.pmeta EXCEPT ![table].last_id = row_id]
            written == write_rows(db, table, rows, Mode(fail, 1))
            saved == write_meta(written, meta1, Mode(fail, 2))
        IN  IF v.err # "ok" THEN Out(RaisedBeforeAssign(db, table), Failed("insert", table, v.err))
            ELSE IF table \in db.torn THEN Out(db, Failed("insert", table, "StorageError"))
            ELSE IF table = META THEN Out(db, Failed("insert", table, "AttributeError"))
            ELSE IF Mode(fail, 1) # "done" THEN Out(written, Failed("insert", table, "StorageError"))
            ELSE IF Mode(fail, 2) # "done" THEN Out(saved, Failed("insert", table, "StorageError"))
            ELSE Out(saved, Res("insert", table, "ok", row_id, <<payload>>, FALSE, 1))
        : v \in {validate_insert(db.pmeta[table].schema, raw_pairs)}})

\* the rows of a table a compiled predicate accepts: [err, hit] with hit the positions
\* accepted, or the error the first failing evaluation raises
Accepted(cw, rows) ==
    LET p(i) == _predicate(cw, rows[i])
        raised == {i \in DOMAIN rows : IsErr(p(i))}
    IN  IF raised # {}
        THEN [err |-> p(CHOOSE i \in raised : \A j \in raised : i <= j).k, hit |-> {}]
        ELSE [err |-> "ok", hit |-> {i \in DOMAIN rows : p(i).b}]

\* DBEngine.select; where = <<>> stands for None and for the empty text alike. The rows
\* of the table meta are the dict of meta.json: select without where returns the dict,
\* the predicate of a blank where accepts its keys, any other predicate fails on the
\* first key
DBEngine_select(db, table, where) ==
    IF _schema(db, table) # "ok" THEN Out(db, Failed("select", table, _schema(db, table)))
    ELSE IF table \in db.torn THEN Out(db, Failed("select", table, "StorageError"))
    ELSE
        The({
        LET a == Accepted(cw, rows)
        IN  IF Strip(where) = <<>> /\ table = META
                THEN Out(db, Res("select", table, "ok", 0, MetaKeys, FALSE, Len(MetaKeys)))
            ELSE IF where = <<>> THEN Out(db, Res("select", table, "ok", 0, rows, FALSE, Len(rows)))
            ELSE IF cw.err # "ok" THEN Out(db, Failed("select", table, cw.err))
            ELSE IF table = META THEN Out(db, Failed("select", table, "AttributeError"))
            ELSE IF a.err # "ok" THEN Out(db, Failed("select", table, a.err))
            ELSE Out(db, Res("select", table, "ok", 0, SelectIdx(rows, a.hit, 1), FALSE,
                             Cardinality(a.hit)))
        : cw \in {compile_where(where)}, rows \in {load_table(db.files, table)}})

\* DBEngine.update; on the table meta the first key of the dict fails in pred or in
\* row.update
DBEngine_update(db, table, set_pairs, where, fail) ==
    IF _schema(db, table) # "ok" THEN Out(db, Failed("update", table, _schema(db, table)))
    ELSE
        The({
        LET a == Accepted(cw, rows)
            rows1 == [i \in DOMAIN rows |->
                        IF i \in a.hit
                        THEN Updated(rows[i], v.cooked)
                        ELSE rows[i]]
        IN  IF v.err # "ok" THEN Out(db, Failed("update", table, v.err))
            ELSE IF table \in db.torn THEN Out(db, Failed("update", table, "StorageError"))
            ELSE IF cw.err # "ok" THEN Out(db, Failed("update", table, cw.err))
            ELSE IF table = META THEN Out(db, Failed("update", table, "AttributeError"))
            ELSE IF a.err # "ok" THEN Out(db, Failed("update", table, a.err))
            ELSE IF Mode(fail, 1) # "done"
                THEN Out(write_rows(db, table, rows1, Mode(fail, 1)),
                         Failed("update", table, "StorageError"))
            ELSE Out(write_rows(db, table, rows1, "done"),
                     Res("update", table, "ok", 0, <<>>, FALSE, Cardinality(a.hit)))
        : v \in {validate_update(db.pmeta[table].schema, set_pairs)},
          cw \in {compile_where(where)}, rows \in {load_table(db.files, table)}})

\* DBEngine.delete; on the table meta, delete without where or with a blank where
\* counts the two keys of the dict and writes [] to meta.json
DBEngine_delete(db, table, where, fail) ==
    IF _schema(db, table) # "ok" THEN Out(db, Failed("delete", table, _schema(db, table)))
    ELSE IF table \in db.torn THEN Out(db, Failed("delete", table, "StorageError"))
    ELSE
        The({
        LET a == Accepted(cw, rows)
            keep == SelectIdx(rows, DOMAIN rows \ a.hit, 1)
            stored == IF table = META THEN MetaKeys ELSE rows
        IN  IF where = <<>> \/ (table = META /\ Strip(where) = <<>>) THEN
                IF Mode(fail, 1) # "done"
                THEN Out(write_rows(db, table, <<>>, Mode(fail, 1)),
                         Failed("delete", table, "StorageError"))
                ELSE Out(write_rows(db, table, <<>>, "done"),
                         Res("delete", table, "ok", 0, <<>>, FALSE, Len(stored)))
            ELSE IF cw.err # "ok" THEN Out(db, Failed("delete", table, cw.err))
            ELSE IF table = META THEN Out(db, Failed("delete", table, "AttributeError"))
            ELSE IF a.err # "ok" THEN Out(db, Failed("delete", table, a.err))
            ELSE IF Mode(fail, 1) # "done"
                THEN Out(write_rows(db, table, keep, Mode(fail, 1)),
                         Failed("delete", table, "StorageError"))
            ELSE Out(write_rows(db, table, keep, "done"),
                     Res("delete", table, "ok", 0, <<>>, FALSE, Len(rows) - Len(keep)))
        : cw \in {compile_where(where)}, rows \in {load_table(db.files, table)}})

-----------------------------------------------------------------------------
(* The state machine: one call of one engine per step.                     *)

\* bounds of the model
MaxId == 2          \* inserts are offered while a table's id counter is below this
MaxVersion == 2     \* PrimitiveDB mutations are offered while the version is below this
MaxCached == 1      \* a select that adds a cache entry is offered while the cache holds fewer
MaxFaults == 1      \* failed file writes in SpecFault

T == <<"t">>
AGE == <<"a","g","e">>
TableNames == {T}
\* DBEngine is also given the table name whose rows file is meta.json
ETableNames == {T, META}

\* the arguments the calls are given
PColumns == {<<<<AGE, "int">>>>, <<>>}
ESchemaParts == {<<<<"a","g","e",":","i","n","t">>>>, <<<<"i","d",":","i","n","t">>>>}
InsertValues == {(AGE :> <<"1">>), (AGE :> <<"a","b","c">>), EmptyMap,
                 (AGE :> <<"1">>) @@ (<<"z">> :> <<"1">>)}
SetValues == {(AGE :> <<"2">>), (AGE :> <<"x">>)}
PWheres == {<<>>, <<Condition(AGE, ">=", <<"2">>)>>}
EWheres == {<<>>, AGE, <<"a",">","=","1">>}

DB == [meta |-> meta, pmeta |-> pmeta, files |-> files, torn |-> torn, versions |-> versions,
       cache |-> cache]

\* the write of a handler with n writes that the environment fails (0: none)
FailChoices(n) == IF faults > 0 THEN 0..n ELSE {0}

\* the same for the writes in place of DBEngine: write k refused when the file is opened
\* (k) or failing after the file was opened (-k)
WriteFaults(n) == IF faults > 0 THEN (0 - n)..n ELSE {0}

Mutations == {"insert", "update", "delete"}

NoHist == [hadPrev |-> FALSE, prevMutated |-> FALSE, prevRows |-> <<>>]

\* the history after a call that returned r, given the conditions where
HistInserts(r) ==
    IF r.err # "ok" THEN okInserts
    ELSE CASE r.op = "create_table" -> Put(okInserts, r.table, 0)
           [] r.op = "drop_table" -> Remove(okInserts, r.table)
           [] r.op = "insert" -> Put(okInserts, r.table,
                                     (IF r.table \in DOMAIN okInserts THEN okInserts[r.table] ELSE 0) + 1)
           [] OTHER -> okInserts

HistSel(r, where) ==
    IF r.err # "ok" THEN prevSel
    ELSE CASE r.op \in {"create_table", "drop_table"} ->
                [k \in {x \in DOMAIN prevSel : x[1] # r.table} |-> prevSel[k]]
           [] r.op \in Mutations ->
                [k \in DOMAIN prevSel |->
                    IF k[1] = r.table THEN [prevSel[k] EXCEPT !.mutated = TRUE] ELSE prevSel[k]]
           [] r.op = "select" -> Put(prevSel, <<r.table, where>>, [rows |-> r.rows, mutated |-> FALSE])
           [] r.op = "open" -> EmptyMap
           [] OTHER -> prevSel

HistPrev(r, where) ==
    IF r.op = "select" /\ r.err = "ok" /\ <<r.table, where>> \in DOMAIN prevSel
    THEN [hadPrev |-> TRUE, prevMutated |-> prevSel[<<r.table, where>>].mutated,
          prevRows |-> prevSel[<<r.table, where>>].rows]
    ELSE NoHist

\* the step that a call with outcome o = [db, res] makes; tracked: the select history
\* is kept
Effect(o, where, fail, tracked) ==
    /\ meta' = o.db.meta
    /\ pmeta' = o.db.pmeta
    /\ files' = o.db.files
    /\ torn' = o.db.torn
    /\ versions' = o.db.versions
    /\ cache' = o.db.cache
    /\ res' = o.res
    /\ asked' = where
    /\ failedOps' = IF fail # 0 /\ o.res.err = "StorageError"
                    THEN failedOps \cup {o.res.op} ELSE failedOps
    /\ faults' = IF fail # 0 /\ o.res.err = "StorageError" THEN faults - 1 ELSE faults
    /\ okInserts' = HistInserts(o.res)
    /\ prevSel' = IF o.res.op = "select" /\ ~tracked THEN prevSel ELSE HistSel(o.res, where)
    /\ selHist' = IF tracked THEN HistPrev(o.res, where) ELSE NoHist

CommitAs(o, where, fail, tracked) ==
    Effect(o, where, fail, tracked) /\ UNCHANGED <<engine, call, ret>>

Commit(o, where, fail) == CommitAs(o, where, fail, FALSE)

IdBelowBound(tables, t) == t \in DOMAIN tables => tables[t].last_id < MaxId
VersionBelowBound(t) == VersionOf(versions, t) < MaxVersion

PCreateTable ==
    /\ engine = "primitive_db"
    /\ \E t \in TableNames, cols \in PColumns, fail \in FailChoices(2) :
          \E o \in {PrimitiveDB_create_table(DB, t, cols, fail)} : Commit(o, <<>>, fail)

PDropTable ==
    /\ engine = "primitive_db"
    /\ \E t \in TableNames, confirmed \in BOOLEAN, fail \in FailChoices(1) :
          \E o \in {PrimitiveDB_drop_table(DB, t, confirmed, fail)} : Commit(o, <<>>, fail)

PInsert ==
    /\ engine = "primitive_db"
    /\ \E t \in TableNames, values \in InsertValues, fail \in FailChoices(2) :
          /\ IdBelowBound(meta, t)
          /\ VersionBelowBound(t)
          /\ \E o \in {PrimitiveDB_insert(DB, t, values, fail)} : Commit(o, <<>>, fail)

PSelect ==
    /\ engine = "primitive_db"
    /\ \E t \in TableNames, where \in PWheres :
          \E o \in {PrimitiveDB_select(DB, t, where)} :
              /\ Cardinality(DOMAIN o.db.cache) <= MaxCached
              /\ Commit(o, where, 0)

\* select with the history of the selects of the process kept, for the claims about
\* two selects in a row
PSelectTracked ==
    /\ engine = "primitive_db"
    /\ \E t \in TableNames, where \in PWheres :
          \E o \in {PrimitiveDB_select(DB, t, where)} :
              /\ Cardinality(DOMAIN o.db.cache) <= MaxCached + 1
              /\ CommitAs(o, where, 0, TRUE)

PUpdate ==
    /\ engine = "primitive_db"
    /\ \E t \in TableNames, set_values \in SetValues, where \in PWheres, fail \in FailChoices(1) :
          /\ VersionBelowBound(t)
          /\ \E o \in {PrimitiveDB_update(DB, t, set_values, where, fail)} : Commit(o, where, fail)

PDelete ==
    /\ engine = "primitive_db"
    /\ \E t \in TableNames, where \in PWheres, confirmed \in BOOLEAN, fail \in FailChoices(1) :
          /\ VersionBelowBound(t)
          /\ \E o \in {PrimitiveDB_delete(DB, t, where, confirmed, fail)} : Commit(o, where, fail)

\* the process ends and a new one opens the same files
PReopen ==
    /\ engine = "primitive_db"
    /\ Commit(Out(PrimitiveDB_init(DB), Res("open", <<>>, "ok", 0, <<>>, FALSE, 0)), <<>>, 0)

ECreateTable ==
    /\ engine = "simple_json_db"
    /\ \E t \in ETableNames, parts \in ESchemaParts, fail \in WriteFaults(2) :
          \E o \in {DBEngine_create_table(DB, t, parts, fail)} : Commit(o, <<>>, fail)

EDropTable ==
    /\ engine = "simple_json_db"
    /\ \E t \in ETableNames, fail \in WriteFaults(1) :
          \E o \in {DBEngine_drop_table(DB, t, fail)} : Commit(o, <<>>, fail)

EInsert ==
    /\ engine = "simple_json_db"
    /\ \E t \in ETableNames, values \in InsertValues, fail \in WriteFaults(2) :
          /\ IdBelowBound(pmeta, t)
          /\ \E o \in {DBEngine_insert(DB, t, values, fail)} : Commit(o, <<>>, fail)

ESelect ==
    /\ engine = "simple_json_db"
    /\ \E t \in ETableNames, where \in EWheres :
          \E o \in {DBEngine_select(DB, t, where)} : Commit(o, where, 0)

EUpdate ==
    /\ engine = "simple_json_db"
    /\ \E t \in ETableNames, set_pairs \in SetValues, where \in EWheres, fail \in WriteFaults(1) :
          \E o \in {DBEngine_update(DB, t, set_pairs, where, fail)} : Commit(o, where, fail)

EDelete ==
    /\ engine = "simple_json_db"
    /\ \E t \in ETableNames, where \in EWheres, fail \in WriteFaults(1) :
          \E o \in {DBEngine_delete(DB, t, where, fail)} : Commit(o, where, fail)

\* the command ends and the next one opens the same files (cli.main opens the engine
\* for every command)
EOpen ==
    /\ engine = "simple_json_db"
    /\ \E fail \in WriteFaults(1) :
          \E o \in {DBEngine_open(DB, fail)} : Commit(o, <<>>, fail)

\* an empty database directory, opened by one of the two engines
InitWith(f, r) ==
    /\ engine \in {"primitive_db", "simple_json_db"}
    /\ meta = EmptyMap
    /\ pmeta = EmptyMap
    /\ files = EmptyMap
    /\ torn = {}
    /\ versions = EmptyMap
    /\ cache = EmptyMap
    /\ res = NoRes
    /\ asked = <<>>
    /\ failedOps = {}
    /\ faults = f
    /\ okInserts = EmptyMap
    /\ prevSel = EmptyMap
    /\ selHist = NoHist
    /\ call = <<>>
    /\ ret = r

Init == InitWith(0, <<>>)

Next ==
    \/ PCreateTable \/ PDropTable \/ PInsert \/ PSelect \/ PUpdate \/ PDelete \/ PReopen
    \/ ECreateTable \/ EDropTable \/ EInsert \/ ESelect \/ EUpdate \/ EDelete \/ EOpen

\* PrimitiveDB alone, with the history of its selects
InitCache == InitWith(0, <<>>) /\ engine = "primitive_db"
NextCache ==
    \/ PCreateTable \/ PDropTable \/ PInsert \/ PSelectTracked \/ PUpdate \/ PDelete \/ PReopen
SpecCache == InitCache /\ [][NextCache]_vars

\* the engines on a file system whose writes succeed
Spec == Init /\ [][Next]_vars

\* the engines on a file system that fails up to MaxFaults writes
InitFault == InitWith(MaxFaults, <<>>)
SpecFault == InitFault /\ [][Next]_vars

-----------------------------------------------------------------------------
(* select of PrimitiveDB on stored rows: the table of the documentation,   *)
(* rows inserted through insert, then one select whose where-tokens go     *)
(* through _parse_where.                                                   *)

MaxStoredRows == 3  \* rows inserted before the select

USERS == <<"u","s","e","r","s">>
NAME == <<"n","a","m","e">>
IS_ACTIVE == <<"i","s","_","a","c","t","i","v","e">>
UsersColumns == <<<<NAME, "str">>, <<AGE, "int">>, <<IS_ACTIVE, "bool">>>>

\* the values of the inserts: name, age, is_active
UserValues ==
    { (NAME :> <<"A","l","i","c","e">>) @@ (AGE :> <<"3","0">>) @@ (IS_ACTIVE :> <<"t","r","u","e">>),
      (NAME :> <<"B","o","b">>) @@ (AGE :> <<"2","0">>) @@ (IS_ACTIVE :> <<"f","a","l","s","e">>),
      (NAME :> <<"C","a","r","l">>) @@ (AGE :> <<"4","0">>) @@ (IS_ACTIVE :> <<"t","r","u","e">>),
      (NAME :> <<"D","a","n">>) @@ (AGE :> <<"n","u","l","l">>) @@ (IS_ACTIVE :> <<"n","u","l","l">>) }

\* the phrases of the where-texts
Phrases ==
    { <<"a","g","e",">","=","2","5">>,
      <<"a","g","e","<","=","3","5">>,
      <<"a","g","e",">","=","3","0">>,
      <<"i","s","_","a","c","t","i","v","e","=","t","r","u","e">>,
      <<"a","g","e",">","5">>,
      <<"a","g","e","<","5","0">>,
      <<"a","g","e","=","n","u","l","l">>,
      <<"a","g","e","!","=","n","u","l","l">>,
      <<"a","g","e","<","=","n","u","l","l">>,
      <<"n","a","m","e",">","=","B","o","b">> }

AND == <<"a","n","d">>
OR == <<"o","r">>

\* the where-texts as token lists: none, one phrase, two phrases joined by and, and
\* one joined by or
WhereTokens ==
    {<<>>} \cup {<<p>> : p \in Phrases} \cup {<<p, AND, q>> : p, q \in Phrases}
    \cup {<<<<"a","g","e",">","=","2","5">>, OR, <<"a","g","e","<","=","3","5">>>>}

\* a new database directory after `create_table users name:str age:int is_active:bool`
Created ==
    PrimitiveDB_create_table(
        [meta |-> EmptyMap, pmeta |-> EmptyMap, files |-> EmptyMap, torn |-> {}, versions |-> EmptyMap,
         cache |-> EmptyMap], USERS, UsersColumns, 0).db

InitSelect ==
    /\ engine = "primitive_db"
    /\ meta = Created.meta
    /\ pmeta = Created.pmeta
    /\ files = Created.files
    /\ torn = {}
    /\ versions = Created.versions
    /\ cache = Created.cache
    /\ res = NoRes
    /\ asked = <<>>
    /\ failedOps = {}
    /\ faults = 0
    /\ okInserts = (USERS :> 0)
    /\ prevSel = EmptyMap
    /\ selHist = NoHist
    /\ call = <<>>
    /\ ret = <<>>

SInsert ==
    /\ res.op # "select"
    /\ Len(files[USERS]) < MaxStoredRows
    /\ \E values \in UserValues :
          \E o \in {PrimitiveDB_insert(DB, USERS, values, 0)} : Commit(o, <<>>, 0)

\* `select users where ...` through the parser: a where-text the parser rejects does
\* not reach the database
SSelect ==
    /\ res.op # "select"
    /\ \E tokens \in WhereTokens :
          \E pw \in {_parse_where(tokens)} :
             \E o \in {IF pw.err # "ok" THEN Out(DB, Failed("select", USERS, pw.err))
                       ELSE PrimitiveDB_select(DB, USERS, pw.where)} :
                /\ Effect(o, pw.where, 0, FALSE)
                /\ call' = tokens
                /\ UNCHANGED <<engine, ret>>

NextSelect == SInsert \/ SSelect
SpecSelect == InitSelect /\ [][NextSelect]_vars

-----------------------------------------------------------------------------
(* parse_comparison as a function of the phrase field-operator-value.      *)

FieldNames == { <<"a","g","e">>, <<"n","a","m","e">>, <<"i","s","_","a","c","t","i","v","e">>, <<"_","x","1">> }
RawValues == { <<"3","0">>,
                  <<"t","r","u","e">>,
                  <<"'","x","'">>,
                  <<"\"","a",">","=","b","\"">>,
                  <<"b","=","c">>,
                  <<"a","<","b">> }

InitParse == InitWith(0, <<>>) /\ engine = "primitive_db"

\* the phrase f o v, written without spaces, is parsed
Parse ==
    /\ \E f \in FieldNames, k \in DOMAIN OpOrder, v \in RawValues :
          /\ call' = [field |-> f, op |-> OpOrder[k], raw_value |-> v,
                      phrase |-> f \o OpChars(OpOrder[k]) \o v]
          /\ ret' = parse_comparison(f \o OpChars(OpOrder[k]) \o v)
    /\ UNCHANGED <<engine, meta, pmeta, files, torn, versions, cache, res, asked, failedOps,
                   faults, okInserts, prevSel, selHist>>

SpecParse == InitParse /\ [][Parse]_vars

-----------------------------------------------------------------------------
(* compile_where as a function of the where-text, and the predicate it     *)
(* returns applied to a record. ret.evaluated: eval() has been called.     *)

\* the records a predicate is applied to
Records ==
    {EmptyMap} \cup {(<<"a">> :> v) : v \in { NoneV, IntV(0), IntV(1), IntV(2), StrV(<<>>), StrV(<<"x">>), BoolV(TRUE), BoolV(FALSE) }}

NothingCompiled ==
    [stage |-> "idle", cw |-> Compiled("ok", TRUE, SyntaxError), evaluated |-> FALSE,
     row |-> EmptyMap, value |-> NoneV]

InitWhere == InitWith(0, NothingCompiled) /\ engine = "simple_json_db"

\* compile_where(text) returns or raises
Compile ==
    /\ \E text \in WhereTexts :
          /\ call' = text
          /\ ret' = [stage |-> "compiled", cw |-> compile_where(text), evaluated |-> FALSE,
                     row |-> EmptyMap, value |-> NoneV]
    /\ UNCHANGED <<engine, meta, pmeta, files, torn, versions, cache, res, asked, failedOps,
                   faults, okInserts, prevSel, selHist>>

\* the predicate compile_where returned is applied to a record; there is none when
\* compile_where raised
Apply ==
    /\ ret.stage = "compiled"
    /\ ret.cw.err = "ok"
    /\ \E row \in Records :
          ret' = [ret EXCEPT !.stage = "applied", !.evaluated = ~ret.cw.always,
                             !.row = row, !.value = _predicate(ret.cw, row)]
    /\ UNCHANGED <<engine, meta, pmeta, files, torn, versions, cache, res, asked, failedOps,
                   faults, okInserts, prevSel, selHist, call>>

NextWhere == Compile \/ Apply
SpecWhere == InitWhere /\ [][NextWhere]_vars

-----------------------------------------------------------------------------
(* The calls with their arguments kept: `call` holds the arguments of the  *)
(* last call, `ret` the highest version the running PrimitiveDB process    *)
(* has held for each table name. One process of either engine, and file   *)
(* writes succeed. DBEngine.delete is called directly and through the      *)
(* command line (cli._dispatch).                                           *)

MaxCallsCached == 0     \* the cache entries a select of this specification may leave

\* the characters of a type name
TypeChars(type_name) ==
    CASE type_name = "int" -> <<"i","n","t">>
      [] type_name = "float" -> <<"f","l","o","a","t">>
      [] type_name = "str" -> <<"s","t","r">>
      [] type_name = "bool" -> <<"b","o","o","l">>
      [] OTHER -> <<"t","e","x","t">>

\* the column lists given to create_table: (field, type) pairs; DBEngine gets them as
\* the texts field:type
CallColumns ==
    { <<<<AGE, "int">>>>,
      <<<<AGE, "int">>, <<NAME, "str">>>>,
      <<>>,
      <<<<ID, "int">>>>,
      <<<<AGE, "int">>, <<ID, "int">>>>,
      <<<<AGE, "int">>, <<AGE, "str">>>>,
      <<<<AGE, "text">>>> }

SchemaParts(columns) == [i \in DOMAIN columns |-> columns[i][1] \o <<":">> \o TypeChars(columns[i][2])]

CallValues ==
    { (AGE :> <<"1">>),
      (AGE :> <<"1">>) @@ (NAME :> <<"x">>),
      (AGE :> <<"1">>) @@ (ID :> <<"7">>) }

CallSets ==
    { (AGE :> <<"2">>),
      (ID :> <<"5">>),
      (AGE :> <<"2">>) @@ (ID :> <<"5">>) }

CallPWheres == {<<>>, <<Condition(ID, "=", <<"1">>)>>}
CallEWheres == {<<>>, <<" ">>, AGE}

\* the arguments of a call; where_given: the command line had --where; confirmed: the
\* answer to ask_confirm, or the --yes flag
Args(op, table, columns, values, confirmed, where_given) ==
    [op |-> op, table |-> table, columns |-> columns, values |-> values,
     confirmed |-> confirmed, where_given |-> where_given]

\* the highest version the process has held for each table name, after a call that
\* left the versions vs
Seen(vs) ==
    [t \in DOMAIN ret \cup DOMAIN vs |->
        IF t \notin DOMAIN vs THEN ret[t]
        ELSE IF t \notin DOMAIN ret THEN vs[t]
        ELSE IF vs[t] > ret[t] THEN vs[t] ELSE ret[t]]

\* the step of a call with outcome o and arguments c
Called(o, c, where) ==
    /\ Effect(o, where, 0, FALSE)
    /\ call' = c
    /\ ret' = IF engine = "primitive_db" THEN Seen(o.db.versions) ELSE ret
    /\ UNCHANGED engine

\* cli._dispatch for the delete command: args.where is None when --where is not given
Dispatch_delete(db, table, where_given, where, yes) ==
    IF ~where_given /\ ~yes THEN Out(db, Failed("delete", table, "ValueError"))
    ELSE DBEngine_delete(db, table, where, 0)

PCreateTableCall ==
    /\ engine = "primitive_db"
    /\ \E t \in TableNames, cols \in CallColumns :
          \E o \in {PrimitiveDB_create_table(DB, t, cols, 0)} :
              Called(o, Args("create_table", t, cols, EmptyMap, FALSE, FALSE), <<>>)

PDropTableCall ==
    /\ engine = "primitive_db"
    /\ \E t \in TableNames, confirmed \in BOOLEAN :
          \E o \in {PrimitiveDB_drop_table(DB, t, confirmed, 0)} :
              Called(o, Args("drop_table", t, <<>>, EmptyMap, confirmed, FALSE), <<>>)

PInsertCall ==
    /\ engine = "primitive_db"
    /\ \E t \in TableNames, values \in CallValues :
          /\ IdBelowBound(meta, t)
          /\ VersionBelowBound(t)
          /\ \E o \in {PrimitiveDB_insert(DB, t, values, 0)} :
                Called(o, Args("insert", t, <<>>, values, FALSE, FALSE), <<>>)

PSelectCall ==
    /\ engine = "primitive_db"
    /\ \E t \in TableNames, where \in CallPWheres :
          \E o \in {PrimitiveDB_select(DB, t, where)} :
              /\ Cardinality(DOMAIN o.db.cache) <= MaxCallsCached
              /\ Called(o, Args("select", t, <<>>, EmptyMap, FALSE, where # <<>>), where)

PUpdateCall ==
    /\ engine = "primitive_db"
    /\ \E t \in TableNames, set_values \in CallSets, where \in CallPWheres :
          /\ VersionBelowBound(t)
          /\ \E o \in {PrimitiveDB_update(DB, t, set_values, where, 0)} :
                Called(o, Args("update", t, <<>>, set_values, FALSE, where # <<>>), where)

PDeleteCall ==
    /\ engine = "primitive_db"
    /\ \E t \in TableNames, where \in CallPWheres, confirmed \in BOOLEAN :
          /\ VersionBelowBound(t)
          /\ \E o \in {PrimitiveDB_delete(DB, t, where, confirmed, 0)} :
                Called(o, Args("delete", t, <<>>, EmptyMap, confirmed, where # <<>>), where)

ECreateTableCall ==
    /\ engine = "simple_json_db"
    /\ \E t \in ETableNames, cols \in CallColumns :
          \E o \in {DBEngine_create_table(DB, t, SchemaParts(cols), 0)} :
              Called(o, Args("create_table", t, cols, EmptyMap, FALSE, FALSE), <<>>)

EDropTableCall ==
    /\ engine = "simple_json_db"
    /\ \E t \in ETableNames :
          \E o \in {DBEngine_drop_table(DB, t, 0)} :
              Called(o, Args("drop_table", t, <<>>, EmptyMap, TRUE, FALSE), <<>>)

EInsertCall ==
    /\ engine = "simple_json_db"
    /\ \E t \in ETableNames, values \in CallValues :
          /\ IdBelowBound(pmeta, t)
          /\ \E o \in {DBEngine_insert(DB, t, values, 0)} :
                Called(o, Args("insert", t, <<>>, values, FALSE, FALSE), <<>>)

ESelectCall ==
    /\ engine = "simple_json_db"
    /\ \E t \in ETableNames, where \in CallEWheres :
          \E o \in {DBEngine_select(DB, t, where)} :
              Called(o, Args("select", t, <<>>, EmptyMap, FALSE, TRUE), where)

EUpdateCall ==
    /\ engine = "simple_json_db"
    /\ \E t \in ETableNames, set_pairs \in CallSets, where \in CallEWheres :
          \E o \in {DBEngine_update(DB, t, set_pairs, where, 0)} :
              Called(o, Args("update", t, <<>>, set_pairs, FALSE, TRUE), where)

EDeleteCall ==
    /\ engine = "simple_json_db"
    /\ \E t \in ETableNames, where \in CallEWheres :
          \E o \in {DBEngine_delete(DB, t, where, 0)} :
              Called(o, Args("delete", t, <<>>, EmptyMap, FALSE, TRUE), where)

\* cli.main for `simpledb delete <table> [--where <text>] [--yes]`: DBEngine.open on
\* the directory, which nothing catches when it raises, and then _dispatch
ECliDelete ==
    /\ engine = "simple_json_db"
    /\ \E t \in ETableNames, where_given \in BOOLEAN, where \in CallEWheres, yes \in BOOLEAN :
          /\ ~where_given => where = <<>>
          /\ \E opened \in {DBEngine_open(DB, 0)} :
                \E o \in {IF opened.res.err # "ok" THEN opened
                           ELSE Dispatch_delete(opened.db, t, where_given, where, yes)} :
                    Called(o, Args("cli_delete", t, <<>>, EmptyMap, yes, where_given), where)

\* the next command of the command line opens the engine anew
EOpenCall ==
    /\ engine = "simple_json_db"
    /\ \E o \in {DBEngine_open(DB, 0)} :
          Called(o, Args("open", <<>>, <<>>, EmptyMap, FALSE, FALSE), <<>>)

InitCalls == InitWith(0, EmptyMap)

NextCalls ==
    \/ PCreateTableCall \/ PDropTableCall \/ PInsertCall \/ PSelectCall \/ PUpdateCall
    \/ PDeleteCall
    \/ ECreateTableCall \/ EDropTableCall \/ EInsertCall \/ ESelectCall \/ EUpdateCall
    \/ EDeleteCall \/ ECliDelete \/ EOpenCall

SpecCalls == InitCalls /\ [][NextCalls]_vars

-----------------------------------------------------------------------------
(* What a condition of Grammar A means, stated on the values and not on    *)
(* the evaluator: the row's field against the condition's value as the     *)
(* schema types it.                                                        *)

Before(a, b) == IF a.k = "str" THEN StrLess(a.s, b.s) ELSE NumOrder(a, b) = "less"

Holds(row, c, schema) ==
    LET v == parse_scalar(c.raw_value, IF c.field = ID THEN "int" ELSE schema[c.field])
        left == Get(row, c.field)
        both == left.k # "None" /\ v.k # "None"
    IN  CASE c.op = "="  -> PyEq(left, v)
          [] c.op = "!=" -> ~PyEq(left, v)
          [] c.op = ">"  -> both /\ Before(v, left)
          [] c.op = "<"  -> both /\ Before(left, v)
          [] c.op = ">=" -> both /\ ~Before(left, v)
          [] c.op = "<=" -> both /\ ~Before(v, left)

\* the rows that satisfy every condition, in stored order
Satisfying(rows, where, schema) ==
    SelectIdx(rows, {i \in DOMAIN rows : \A k \in DOMAIN where : Holds(rows[i], where[k], schema)}, 1)

Ids(rows) == [i \in DOMAIN rows |-> rows[i][ID].i]

-----------------------------------------------------------------------------
(* The claims.                                                             *)

\* C1: in PrimitiveDB, after any sequence of calls (dropping a table and creating it
\* again included), a select that succeeds returns exactly the rows now stored for
\* the table that satisfy every condition, computed or served from the cache.
C1_SelectReturnsStoredMatchingRows ==
    (engine = "primitive_db" /\ res.op = "select" /\ res.err = "ok")
        => res.rows = Satisfying(load_table(files, res.table), asked, meta[res.table].schema)

\* C2: in PrimitiveDB, of two selects on one table with the same conditions, the second
\* returns the same rows from the cache when no insert, update or delete on the table
\* succeeded in between, and is recomputed (from_cache false) when one did.
C2_SecondSelectCachedUnlessMutated ==
    (res.op = "select" /\ res.err = "ok" /\ selHist.hadPrev)
        => IF selHist.prevMutated THEN ~res.from_cache
           ELSE res.from_cache /\ res.rows = selHist.prevRows

\* C3: between a table's create_table and its drop_table, in both engines, the k-th
\* successful insert returns id k whatever updates, deletes and failed inserts come in
\* between, an insert failing when its values are rejected or when one of its file
\* writes fails; the ids of the stored rows strictly increase, so that no id is
\* issued twice.
C3_KthInsertGetsIdK ==
    failedOps \subseteq {"insert"}
        => /\ (res.op = "insert" /\ res.err = "ok") => res.id = okInserts[res.table]
           /\ \A t \in DOMAIN okInserts \cap DOMAIN files :
                 \A i, j \in DOMAIN files[t] : i < j => Ids(files[t])[i] < Ids(files[t])[j]

\* C4: when the only file writes that fail are writes of insert, no table ever stores
\* two rows with the same id, in the same process or after the database is reopened.
C4_NoDuplicateIdAfterFailedInsertWrite ==
    failedOps \subseteq {"insert"}
        => \A t \in DOMAIN files : \A i, j \in DOMAIN files[t] :
              i # j => files[t][i][ID] # files[t][j][ID]

\* the node kinds of the where grammar as documented: the expression wrapper, and/or,
\* a comparison by one of the six operators, a name, a number, string or boolean
\* literal; the operator and context objects of these nodes belong to them
GrammarNode(n) ==
    CASE n.cls = "Expression" -> TRUE
      [] n.cls = "BoolOp" -> \A k \in DOMAIN n.ops : n.ops[k] \in _ALLOWED_BOOL_OPS
      [] n.cls = "Compare" -> \A k \in DOMAIN n.ops : n.ops[k] \in _ALLOWED_CMPOPS
      [] n.cls = "Name" -> TRUE
      [] n.cls = "Constant" -> n.value.k \in {"int", "float", "str", "bool"}
      [] n.cls \in _ALLOWED_BOOL_OPS \cup _ALLOWED_CMPOPS \cup {"Load"} -> TRUE
      [] OTHER -> FALSE

InGrammar(tree) == tree.err = "ok" /\ \A i \in DOMAIN tree.nodes : GrammarNode(tree.nodes[i])

\* a node of a kind outside the allow-list
OutsideNode(n) ==
    \/ n.cls \notin {"Expression", "BoolOp", "Compare", "Name", "Constant", "Load"}
                    \cup _ALLOWED_BOOL_OPS \cup _ALLOWED_CMPOPS
    \/ n.cls = "BoolOp" /\ \E k \in DOMAIN n.ops : n.ops[k] \notin _ALLOWED_BOOL_OPS
    \/ n.cls = "Compare" /\ \E k \in DOMAIN n.ops : n.ops[k] \notin _ALLOWED_CMPOPS

HasOutsideNode(tree) == tree.err = "ok" /\ \E i \in DOMAIN tree.nodes : OutsideNode(tree.nodes[i])

\* C5: compile_where accepts every non-empty where-text whose syntax tree is made of
\* the documented node kinds only (such as `age>=30 and is_active=true`): it returns a
\* predicate and raises no WhereError.
C5_GrammarTextsAreAccepted ==
    (ret.stage = "compiled" /\ InGrammar(ast_parse(Normalize(call)))) => ret.cw.err = "ok"

\* C6: for every where-text whose syntax tree holds a node outside the allow-list,
\* compile_where raises WhereError, and the compiled code is evaluated for no record.
C6_OutsideAllowListIsRejectedUnevaluated ==
    (ret.stage # "idle" /\ HasOutsideNode(ast_parse(Normalize(call))))
        => ret.cw.err = "WhereError" /\ ~ret.evaluated

\* C6 witness: a where-text with a function call was compiled and rejected
C6_Witness ==
    /\ ret.stage = "compiled" /\ ret.cw.err = "WhereError"
    /\ \E i \in DOMAIN ret.cw.tree.nodes : ret.cw.tree.nodes[i].cls = "Call"

\* C7: in PrimitiveDB, for every stored row list and every list of conditions over
\* schema fields, a select that succeeds returns exactly the rows for which every
\* condition holds, in stored order.
C7_SelectIsConjunctionInStoredOrder ==
    (res.op = "select" /\ res.err = "ok")
        => res.rows = Satisfying(files[USERS], asked, meta[USERS].schema)

\* C7 witness: after the insert of Alice, `select users where age>=30 and
\* is_active=true` returned the single row {id 1, Alice, 30, true}
C7_Witness ==
    /\ call = <<<<"a","g","e",">","=","3","0">>, AND, <<"i","s","_","a","c","t","i","v","e","=","t","r","u","e">>>>
    /\ Len(files[USERS]) = 1
    /\ res.op = "select" /\ res.err = "ok"
    /\ res.rows = <<(ID :> IntV(1)) @@ (NAME :> StrV(<<"A","l","i","c","e">>)) @@ (AGE :> IntV(30))
                    @@ (IS_ACTIVE :> BoolV(TRUE))>>

\* the value a condition compares with, as the schema of users types it
TypedValue(c) == parse_scalar(c.raw_value, IF c.field = ID THEN "int" ELSE meta[USERS].schema[c.field])

NullAt(rows, field) == {i \in DOMAIN rows : Get(rows[i], field).k = "None"}

\* C8: a select by one ordering condition (>, <, >=, <=) raises nothing and returns no
\* row whose field is null, and no row at all when the condition's value is null;
\* field = null returns exactly the rows whose field is null and field != null exactly
\* the others.
C8_NullFailsOrderingAndEqualsItself ==
    (res.op = "select" /\ Len(asked) = 1 /\ call # <<>>)
        => LET c == asked[1]
               rows == files[USERS]
               v == TypedValue(c)
           IN  /\ c.op \in {">", "<", ">=", "<="} =>
                     /\ res.err = "ok"
                     /\ \A i \in NullAt(rows, c.field) : \A k \in DOMAIN res.rows : res.rows[k] # rows[i]
                     /\ v.k = "None" => res.rows = <<>>
               /\ (c.op = "=" /\ v.k = "None") =>
                     res.err = "ok" /\ res.rows = SelectIdx(rows, NullAt(rows, c.field), 1)
               /\ (c.op = "!=" /\ v.k = "None") =>
                     res.err = "ok"
                     /\ res.rows = SelectIdx(rows, DOMAIN rows \ NullAt(rows, c.field), 1)

\* C8 witness: an ordering condition on age was evaluated on rows of which one has a
\* null age and another one matched
C8_Witness ==
    /\ res.op = "select" /\ res.err = "ok" /\ Len(asked) = 1
    /\ asked[1].op \in {">", "<", ">=", "<="} /\ asked[1].field = AGE
    /\ NullAt(files[USERS], AGE) # {}
    /\ res.rows # <<>>

\* C9: for every field identifier f, operator o and non-empty raw value v, operator
\* characters inside v included, parse_comparison of the phrase f o v yields
\* Condition(f, o, v).
C9_PhraseParsesToItsParts ==
    call # <<>> => ret = Condition(call.field, call.op, call.raw_value)

\* the errors with which insert rejects its values
Rejections == {"ValidationError", "SchemaError", "TypeErrorDB"}

\* C10: an insert that is rejected for its values (a field missing, an extra field, a
\* value that cannot be coerced) leaves the rows, the id counter in memory and on disk,
\* and the version counter as they were, and a successful insert that comes next
\* receives the id it would have received without the rejected one.
C10_RejectedInsertChangesNothing ==
    [][/\ (res'.op = "insert" /\ res'.err \in Rejections)
            => UNCHANGED <<meta, pmeta, files, torn, versions>>
       /\ (res.op = "insert" /\ res.err \in Rejections /\ res.table \in DOMAIN okInserts
           /\ res'.op = "insert" /\ res'.err = "ok" /\ res'.table = res.table)
            => res'.id = okInserts[res.table] + 1]_vars

\* C10 witness: an insert into a table that holds a row was rejected for its values
C10_Witness ==
    /\ res.op = "insert" /\ res.err \in Rejections
    /\ res.table \in DOMAIN files /\ Len(files[res.table]) = 1

\* the names of a column list
ColumnNames(columns) == {columns[i][1] : i \in DOMAIN columns}

\* the tables the running engine knows: PrimitiveDB answers from memory, DBEngine from
\* the metadata file
Known == IF engine = "primitive_db" THEN meta ELSE pmeta

\* C11: id is reserved in both engines: create_table with a column named id fails and
\* creates nothing, update with id among the set fields fails and changes no row, no
\* schema ever holds a field named id, and the ids of the stored rows stay as the
\* inserts assigned them (insert and update keep them, delete only removes rows).
C11_IdIsReserved ==
    [][/\ (call'.op = "create_table" /\ ID \in ColumnNames(call'.columns))
            => (res'.err # "ok" /\ UNCHANGED <<meta, pmeta, files, torn, versions>>)
       /\ (call'.op = "update" /\ ID \in DOMAIN call'.values)
            => (res'.err # "ok" /\ UNCHANGED <<meta, pmeta, files, torn, versions>>)
       /\ \A t \in DOMAIN meta' : ID \notin DOMAIN meta'[t].schema
       /\ \A t \in DOMAIN pmeta' : ID \notin DOMAIN pmeta'[t].schema
       /\ \A t \in DOMAIN files \cap DOMAIN files' :
             /\ res'.op \in {"insert", "update"}
                   => \A i \in DOMAIN files[t] :
                         i \in DOMAIN files'[t] /\ files'[t][i][ID] = files[t][i][ID]
             /\ res'.op = "delete"
                   => Range(Ids(files'[t])) \subseteq Range(Ids(files[t]))]_vars

\* C11 witness: an update that names id was refused on a table that holds a row
C11_Witness ==
    /\ call # <<>> /\ call.op = "update" /\ ID \in DOMAIN call.values
    /\ call.table \in DOMAIN files /\ files[call.table] # <<>>
    /\ res.err \in {"ValidationError", "SchemaError"}

\* C12: in every reachable state of either engine every stored row of a table has
\* exactly the fields of the table's current schema and id.
C12_RowsHaveSchemaFieldsAndId ==
    \A t \in DOMAIN files \cap DOMAIN Known :
        \A i \in DOMAIN files[t] :
            DOMAIN files[t][i] = DOMAIN Known[t].schema \cup {ID}

\* C12 witness: a row of a table with two declared fields was updated
C12_Witness ==
    /\ res.op = "update" /\ res.err = "ok" /\ res.count >= 1
    /\ DOMAIN Known[res.table].schema = {AGE, NAME}

\* C17: all rows of a table are deleted without a condition only after confirmation:
\* PrimitiveDB.delete with no condition removes rows only when the answer was yes, and
\* otherwise returns 0 and leaves rows, id counter and version as they were; on the
\* simple_json_db command line every delete that DBEngine.delete carries out with an
\* empty or absent where had the --yes flag.
C17_DeleteAllOnlyWhenConfirmed ==
    [][/\ (engine = "primitive_db" /\ call'.op = "delete" /\ asked' = <<>> /\ ~call'.confirmed)
            => (res'.count = 0 /\ UNCHANGED <<meta, pmeta, files, torn, versions>>)
       /\ (call'.op = "cli_delete" /\ res'.err = "ok"
           /\ (~call'.where_given \/ asked' = <<>>))
            => call'.confirmed]_vars

\* a column list create_table has to refuse
Flawed(columns) ==
    \/ columns = <<>>
    \/ ID \in ColumnNames(columns)
    \/ \E i, j \in DOMAIN columns : i # j /\ columns[i][1] = columns[j][1]
    \/ \E i \in DOMAIN columns : columns[i][2] \notin {"int", "float", "str", "bool"}

\* C18: create_table fails, in both engines, when the table exists, the column list is
\* empty, a column is named id, two columns share a name or a type is not one of int,
\* float, str, bool; a create_table that fails leaves tables, schemas, rows and id
\* counters as they were, in memory and on disk.
C18_FailedCreateChangesNothing ==
    [][/\ (call'.op = "create_table"
           /\ (call'.table \in DOMAIN Known \/ Flawed(call'.columns)))
            => res'.err # "ok"
       /\ (res'.op = "create_table" /\ res'.err # "ok")
            => UNCHANGED <<meta, pmeta, files, torn, versions>>]_vars

\* C18 witness: create_table with an unsupported type was refused, and so was
\* create_table of a table that exists and holds a row
C18_Witness ==
    /\ call # <<>> /\ call.op = "create_table" /\ res.err # "ok"
    /\ call.table \in DOMAIN Known /\ files[call.table] # <<>>
    /\ \E i \in DOMAIN call.columns : call.columns[i][2] = "text"

NotFound == {"TableNotFoundError", "EngineError"}

\* one step of drop_table, create_table and of the calls on an absent table
DropAndCreateStep ==
    /\ (call'.op = "drop_table" /\ call'.table \notin DOMAIN Known)
         => (res'.err # "ok" /\ UNCHANGED <<meta, pmeta, files, torn, versions>>)
    /\ (res'.op = "drop_table" /\ res'.err = "ok")
         => /\ res'.table \notin DOMAIN meta'
            /\ res'.table \notin DOMAIN pmeta'
            /\ res'.table \notin DOMAIN files'
    /\ (call'.op \in {"insert", "select", "update", "delete"}
        /\ call'.table \notin DOMAIN Known)
         => (res'.err \in NotFound /\ UNCHANGED <<meta, pmeta, files, torn, versions>>)
    /\ (res'.op = "create_table" /\ res'.err = "ok")
         => /\ res'.table \in DOMAIN files' /\ files'[res'.table] = <<>>
            /\ res'.table \in DOMAIN pmeta' /\ pmeta'[res'.table].last_id = 0
            /\ engine = "primitive_db" => meta'[res'.table].last_id = 0
    /\ (res.op = "create_table" /\ res.err = "ok"
        /\ res'.op = "insert" /\ res'.err = "ok")
         => res'.id = 1

\* C19: drop_table of an absent table fails and changes nothing; after a drop_table
\* that succeeded the table is gone from the metadata and the files, and insert,
\* select, update and delete on an absent table fail as not found and change nothing;
\* a table created (again) has no rows and an id counter of 0, and the insert that
\* follows its creation gets id 1.
C19_DroppedTableIsGoneAndStartsAnew == [][DropAndCreateStep]_vars

\* the same for the steps in which meta.json holds the metadata before and after, which
\* are all steps of PrimitiveDB and the steps of DBEngine without a table named meta
DroppedTableIsGoneWhileMetaStands ==
    [][(META \notin DOMAIN files /\ META \notin DOMAIN files') => DropAndCreateStep]_vars

\* C19 witness: a table that had been inserted into and dropped was created again and
\* the insert that followed got id 1
C19_Witness ==
    /\ engine = "primitive_db" /\ res.op = "insert" /\ res.err = "ok" /\ res.id = 1
    /\ res.table \in DOMAIN ret /\ ret[res.table] > versions[res.table]

\* C20: in a PrimitiveDB process the version of a table name only grows: a successful
\* insert, update or delete raises it by one, and no call (drop_table followed by
\* create_table of the name included) leaves it below a value it had before.
C20_VersionOnlyGrows ==
    [][/\ (engine = "primitive_db" /\ res'.op \in Mutations /\ res'.err = "ok")
            => versions'[res'.table] = VersionOf(versions, res'.table) + 1
       /\ \A t \in DOMAIN versions' \cap DOMAIN ret : versions'[t] >= ret[t]]_vars

\* C16: the predicate compile_where returns for an expression that passed validation,
\* applied to any record, returns a boolean and does not raise: a name of the
\* expression that the record has no field for counts as null.
C16_PredicateReturnsABoolean ==
    ret.stage = "applied" => (~IsErr(ret.value) /\ ret.value.k = "bool")

\* successful insert, update and delete each raise the version by one (the part of
\* C20 that holds)
MutationsRaiseTheVersion ==
    [][(engine = "primitive_db" /\ res'.op \in Mutations /\ res'.err = "ok")
            => versions'[res'.table] = VersionOf(versions, res'.table) + 1]_vars

-----------------------------------------------------------------------------
(* parse_scalar on a literal, the value written back as text, and          *)
(* parse_scalar on that text. call holds the literal and the type, ret     *)
(* the three results.                                                      *)

\* the decimal digits of a natural number
RECURSIVE NatText(_)
NatText(n) ==
    IF n < 10 THEN <<DigitChars[n + 1]>>
    ELSE NatText(n \div 10) \o <<DigitChars[(n % 10) + 1]>>

\* a digit text without the zeros at its end, its first digit kept
RECURSIVE Significant(_)
Significant(d) ==
    IF Len(d) > 1 /\ d[Len(d)] = "0" THEN Significant(SubSeq(d, 1, Len(d) - 1)) ELSE d

\* the exponent of repr(float): a sign and at least two digits
ExponentText(x) ==
    (IF x < 0 THEN <<"e","-">> ELSE <<"e","+">>)
    \o The({IF Len(d) < 2 THEN <<"0">> \o d ELSE d : d \in {NatText(IF x < 0 THEN 0 - x ELSE x)}})

\* repr(float): the digits with the point where it falls, or d.ddde+XX when the point
\* falls more than 16 places right or more than 3 places left of the first digit
FloatText(v) ==
    LET sign == IF v.i < 0 \/ (v.i = 0 /\ v.b) THEN <<"-">> ELSE <<>>
        d == Significant(NatText(IF v.i < 0 THEN 0 - v.i ELSE v.i)
                         \o The({Zeros(8 - Len(t)) \o t : t \in {NatText(v.m)}}))
        n == Len(d)
        decpt == v.e + 1
    IN  IF IsNan(v) THEN NAN
        ELSE IF IsInf(v) THEN sign \o INF
        ELSE IF v.i = 0 THEN sign \o <<"0",".","0">>
        ELSE IF decpt > 16 \/ decpt < 0 - 3 THEN
            sign \o <<d[1]>> \o (IF n > 1 THEN <<".">> \o Tail(d) ELSE <<>>) \o ExponentText(decpt - 1)
        ELSE IF decpt <= 0 THEN sign \o <<"0",".">> \o Zeros(0 - decpt) \o d
        ELSE IF decpt >= n THEN sign \o d \o Zeros(decpt - n) \o <<".","0">>
        ELSE sign \o SubSeq(d, 1, decpt) \o <<".">> \o SubSeq(d, decpt + 1, n)

\* Python's str(value), the text commands._try_pretty_table writes for a value
str(v) ==
    CASE v.k = "None" -> <<"N","o","n","e">>
      [] v.k = "bool" -> IF v.b THEN <<"T","r","u","e">> ELSE <<"F","a","l","s","e">>
      [] v.k = "str" -> v.s
      [] v.k = "float" -> FloatText(v)
      [] OTHER -> IF v.i < 0 THEN <<"-">> \o NatText(0 - v.i) ELSE NatText(v.i)

\* the raw literals
ScalarLiterals ==
    { <<"3","0">>, <<"+","5">>, <<"-","7">>, <<" ","4","2"," ">>, <<"'","7","'">>,
      <<"0","0","7">>, <<"0">>, <<"1">>, <<"1","_","0">>, <<"1",".","5">>,
      <<"t","r","u","e">>, <<"Y","e","s">>, <<"n">>, <<"'","f","a","l","s","e","'">>,
      <<"\"","T","R","U","E","\"">>,
      <<"x">>, <<"a"," ","b">>, <<"'","a","'">>, <<"\"","a"," ","b","\"">>,
      <<"\"","'","a","'","\"">>, <<"'"," ","a"," ","'">>, <<"'","n","u","l","l","'">>,
      <<"\"","N","o","n","e","\"">>, <<"'","'">>,
      <<"n","u","l","l">>, <<"N","o","n","e">>, <<>> }

RoundTripTypes == {"int", "bool", "str"}

NothingCoerced == [stage |-> "idle", value |-> NoneV, text |-> <<>>, again |-> NoneV]

InitRoundTrip == InitWith(0, NothingCoerced) /\ engine = "primitive_db"

\* parse_scalar(raw, T) returns a value or raises
Coerce ==
    /\ \E raw \in ScalarLiterals, type_name \in RoundTripTypes :
          /\ call' = [raw |-> raw, type |-> type_name]
          /\ ret' = [NothingCoerced EXCEPT !.stage = "coerced",
                                            !.value = parse_scalar(raw, type_name)]
    /\ UNCHANGED <<engine, meta, pmeta, files, torn, versions, cache, res, asked, failedOps,
                   faults, okInserts, prevSel, selHist>>

\* the value of an accepted literal is written as text
WriteBack ==
    /\ ret.stage = "coerced"
    /\ ~IsErr(ret.value)
    /\ ret' = [ret EXCEPT !.stage = "written", !.text = str(ret.value)]
    /\ UNCHANGED <<engine, meta, pmeta, files, torn, versions, cache, res, asked, failedOps,
                   faults, okInserts, prevSel, selHist, call>>

\* parse_scalar(text, T) on the text written
CoerceAgain ==
    /\ ret.stage = "written"
    /\ ret' = [ret EXCEPT !.stage = "again", !.again = parse_scalar(ret.text, call.type)]
    /\ UNCHANGED <<engine, meta, pmeta, files, torn, versions, cache, res, asked, failedOps,
                   faults, okInserts, prevSel, selHist, call>>

NextRoundTrip == Coerce \/ WriteBack \/ CoerceAgain
SpecRoundTrip == InitRoundTrip /\ [][NextRoundTrip]_vars

\* C14: for T among int, bool, str and every literal parse_scalar accepts for T, the
\* value of the literal, written back as text and coerced again with T, is the same
\* value.
C14_CoercionRoundTrips ==
    ret.stage = "again" => ret.again = ret.value

\* the round trip of the int and bool literals (the part of C14 that holds)
IntAndBoolRoundTrip ==
    (ret.stage = "again" /\ call.type \in {"int", "bool"}) => ret.again = ret.value

-----------------------------------------------------------------------------
(* The normalization compile_where applies to a where-text, on one         *)
(* comparison `f o r`. call holds the comparison and its text, ret the     *)
(* normalized text.                                                        *)

\* the comparison operators a user writes
UserOps == { <<"=">>, <<"!","=">>, <<">">>, <<"<">>, <<">","=">>, <<"<","=">>, <<"=","=">> }

\* right-hand sides: numbers, quoted strings, true/false
RightHandSides ==
    { <<"1">>, <<"3","0">>, <<"'","x","'">>, <<"\"","a"," ","b","\"">>,
      <<"'","a","=","b","'">>, <<"t","r","u","e">>, <<"f","a","l","s","e">> }

ComparedFields == { <<"a">>, AGE, <<"i","s","_","a","c","t","i","v","e">> }

\* the text of f o r, with one space or none on each side of the operator
ComparisonText(f, o, r, spaced) ==
    IF spaced THEN f \o <<" ">> \o o \o <<" ">> \o r ELSE f \o o \o r

\* the host comparison the user comparison f o r stands for
HostComparison(f, o, r, spaced) ==
    ComparisonText(f,
                   IF o = <<"=">> THEN <<"=","=">> ELSE o,
                   IF r = <<"t","r","u","e">> THEN <<"T","r","u","e">>
                   ELSE IF r = <<"f","a","l","s","e">> THEN <<"F","a","l","s","e">>
                   ELSE r,
                   spaced)

InitNormalize == InitWith(0, <<>>) /\ engine = "simple_json_db"

\* the where-text f o r is normalized as compile_where normalizes it
NormalizeComparison ==
    /\ \E f \in ComparedFields, o \in UserOps, r \in RightHandSides, spaced \in BOOLEAN :
          /\ call' = [field |-> f, op |-> o, rhs |-> r, spaced |-> spaced,
                      text |-> ComparisonText(f, o, r, spaced)]
          /\ ret' = Normalize(ComparisonText(f, o, r, spaced))
    /\ UNCHANGED <<engine, meta, pmeta, files, torn, versions, cache, res, asked, failedOps,
                   faults, okInserts, prevSel, selHist>>

SpecNormalize == InitNormalize /\ [][NormalizeComparison]_vars

\* C15: the normalization maps each user comparison f o r (o one of =, !=, >, <, >=,
\* <=, ==; r a number, a quoted string or true/false; with or without spaces around
\* the operator) to f o' r' where o' is == for = and o otherwise, and r' is True/False
\* for true/false and r otherwise.
C15_NormalizationMapsEachComparison ==
    call # <<>> => ret = HostComparison(call.field, call.op, call.rhs, call.spaced)

-----------------------------------------------------------------------------
(* The interactive loop of primitive_db: main.run reads a line, has        *)
(* parse_command parse it and CommandExecutor.execute carry it out.        *)
(* call holds the line read, ret the position of the loop.                 *)

\* shlex.split(text, posix=True): whitespace separates the tokens, a quoted stretch
\* belongs to its token without the quotes, a quote left open raises ValueError
\* (backslashes are outside the alphabet of this model); [err, tokens]
RECURSIVE ShlexFrom(_, _, _, _, _, _)
ShlexFrom(text, i, token, in_token, quote, tokens) ==
    IF i > Len(text)
    THEN IF quote # "" THEN [err |-> "ValueError", tokens |-> <<>>]
         ELSE [err |-> "ok", tokens |-> IF in_token THEN Append(tokens, token) ELSE tokens]
    ELSE IF quote # ""
        THEN IF text[i] = quote THEN ShlexFrom(text, i + 1, token, TRUE, "", tokens)
             ELSE ShlexFrom(text, i + 1, Append(token, text[i]), TRUE, quote, tokens)
    ELSE IF text[i] \in WS
        THEN IF in_token THEN ShlexFrom(text, i + 1, <<>>, FALSE, "", Append(tokens, token))
             ELSE ShlexFrom(text, i + 1, <<>>, FALSE, "", tokens)
    ELSE IF text[i] \in {"'", "\""} THEN ShlexFrom(text, i + 1, token, TRUE, text[i], tokens)
    ELSE ShlexFrom(text, i + 1, Append(token, text[i]), TRUE, "", tokens)

shlex_split(text) == ShlexFrom(text, 1, <<>>, FALSE, "", <<>>)

\* the type a type name spells, for a name parse_column_spec lets through
TypeNamed(chars) == CHOOSE t \in SUPPORTED_TYPES : TypeChars(t) = chars

\* utils.parse_column_spec: field:type to (field, type), or the error raised
parse_column_spec(spec) ==
    IF ~Contains(<<":">>, spec) THEN [err |-> "ParseError", column |-> <<>>]
    ELSE The({IF ensure_identifier(Strip(parts[1])) # "ok"
                 THEN [err |-> "ValidationError", column |-> <<>>]
              ELSE IF \A t \in SUPPORTED_TYPES : TypeChars(t) # Strip(parts[2])
                 THEN [err |-> "SchemaError", column |-> <<>>]
              ELSE [err |-> "ok", column |-> <<Strip(parts[1]), TypeNamed(Strip(parts[2]))>>]
              : parts \in {SplitFirst(spec, <<":">>)}})

\* utils.parse_assignment: field=value to (field, raw), or the error raised
parse_assignment(expr) ==
    IF ~Contains(<<"=">>, expr) THEN [err |-> "ParseError", field |-> <<>>, raw |-> <<>>]
    ELSE The({IF ensure_identifier(Strip(parts[1])) # "ok"
                 THEN [err |-> "ValidationError", field |-> <<>>, raw |-> <<>>]
              ELSE [err |-> "ok", field |-> Strip(parts[1]), raw |-> Strip(parts[2])]
              : parts \in {SplitFirst(expr, <<"=">>)}})

\* utils.split_outside_quotes: the stripped, non-empty parts between the separators
\* that stand outside quotes
RECURSIVE SplitFrom(_, _, _, _, _, _)
SplitFrom(text, sep, i, buf, quote, parts) ==
    IF i > Len(text)
    THEN IF Strip(buf) # <<>> THEN Append(parts, Strip(buf)) ELSE parts
    ELSE LET ch == text[i]
             quote1 == IF ch \in {"'", "\""}
                       THEN IF quote = "" THEN ch ELSE IF quote = ch THEN "" ELSE quote
                       ELSE quote
         IN  IF ch = sep /\ quote1 = ""
             THEN SplitFrom(text, sep, i + 1, <<>>, quote1,
                            IF Strip(buf) # <<>> THEN Append(parts, Strip(buf)) ELSE parts)
             ELSE SplitFrom(text, sep, i + 1, Append(buf, ch), quote1, parts)

split_outside_quotes(text, sep) == SplitFrom(text, sep, 1, <<>>, "", <<>>)

\* the assignments of a list of parts put into a dict, or the first error raised
RECURSIVE AssignFrom(_, _, _)
AssignFrom(parts, i, values) ==
    IF i > Len(parts) THEN [err |-> "ok", values |-> values]
    ELSE The({IF a.err # "ok" THEN [err |-> a.err, values |-> EmptyMap]
              ELSE AssignFrom(parts, i + 1, Put(values, a.field, a.raw))
              : a \in {parse_assignment(parts[i])}})

\* the columns of a list of specs, or the first error raised
RECURSIVE ColumnsFrom(_, _, _)
ColumnsFrom(specs, i, columns) ==
    IF i > Len(specs) THEN [err |-> "ok", columns |-> columns]
    ELSE The({IF c.err # "ok" THEN [err |-> c.err, columns |-> <<>>]
              ELSE ColumnsFrom(specs, i + 1, Append(columns, c.column))
              : c \in {parse_column_spec(specs[i])}})

\* str.startswith
StartsWith(s, prefix) == Len(s) >= Len(prefix) /\ SubSeq(s, 1, Len(prefix)) = prefix

\* the text with its leading whitespace (\s) removed, and its leading run of word
\* characters (\w)
RECURSIVE LStrip(_)
LStrip(s) == IF s # <<>> /\ s[1] \in WS THEN LStrip(Tail(s)) ELSE s

WordChars == Range(UpperLetters) \cup Range(LowerLetters) \cup Range(DigitChars) \cup {"_"}

RECURSIVE WordRun(_)
WordRun(s) == IF s # <<>> /\ s[1] \in WordChars THEN <<s[1]>> \o WordRun(Tail(s)) ELSE <<>>

\* \s+keyword\s+ at the head of a text, case ignored: the text after it
AfterKeyword(text, keyword) ==
    LET a == LStrip(text)
        b == SubSeq(a, Len(keyword) + 1, Len(a))
    IN  IF Len(a) < Len(text) /\ StartsWith(Lower(a), keyword) /\ Len(LStrip(b)) < Len(b)
        THEN [matched |-> TRUE, rest |-> LStrip(b)]
        ELSE [matched |-> FALSE, rest |-> <<>>]

\* (?:\s+where\s+(?P<where>.+))?$ on the rest of a line
WhereTail(rest) ==
    IF rest = <<>> THEN [matched |-> TRUE, where |-> <<>>]
    ELSE The({[matched |-> k.matched /\ k.rest # <<>>, where |-> k.rest]
              : k \in {AfterKeyword(rest, <<"w","h","e","r","e">>)}})

\* ^keyword\s+(?P<table>\w+) at the head of a line, case ignored: the table and the
\* rest of the line
TableHead(line, keyword) ==
    LET a == SubSeq(line, Len(keyword) + 1, Len(line))
        table == WordRun(LStrip(a))
    IN  IF StartsWith(Lower(line), keyword) /\ Len(LStrip(a)) < Len(a) /\ table # <<>>
        THEN [matched |-> TRUE, table |-> table,
              rest |-> SubSeq(LStrip(a), Len(table) + 1, Len(LStrip(a)))]
        ELSE [matched |-> FALSE, table |-> <<>>, rest |-> <<>>]

\* _SELECT_RE and _DELETE_RE: [matched, table, set, where]; where is empty for a
\* group that did not take part
MatchTableWhere(line, keyword) ==
    The({The({[matched |-> h.matched /\ w.matched, table |-> h.table, set |-> <<>>,
               where |-> w.where]
              : w \in {WhereTail(h.rest)}})
         : h \in {TableHead(line, keyword)}})

\* _UPDATE_RE: the set group is the shortest text that a where group or the end of
\* the line follows
MatchUpdate(line) ==
    The({The({IF ~(h.matched /\ s.matched /\ s.rest # <<>>)
              THEN [matched |-> FALSE, table |-> <<>>, set |-> <<>>, where |-> <<>>]
              ELSE LET ks == {k \in 1..(Len(s.rest) - 1) :
                                 WhereTail(SubSeq(s.rest, k + 1, Len(s.rest))).matched}
                       k0 == IF ks = {} THEN Len(s.rest)
                             ELSE CHOOSE k \in ks : \A j \in ks : k <= j
                   IN  [matched |-> TRUE, table |-> h.table, set |-> SubSeq(s.rest, 1, k0),
                        where |-> WhereTail(SubSeq(s.rest, k0 + 1, Len(s.rest))).where]
              : s \in {AfterKeyword(h.rest, <<"s","e","t">>)}})
         : h \in {TableHead(line, <<"u","p","d","a","t","e">>)}})

\* parser._parse_where on the text of the where group: [err, where]
parse_where_raw(where_raw) ==
    IF Strip(where_raw) = <<>> THEN [err |-> "ok", where |-> <<>>]
    ELSE The({IF t.err # "ok" THEN [err |-> t.err, where |-> <<>>]
              ELSE _parse_where(t.tokens)
              : t \in {shlex_split(Strip(where_raw))}})

\* parser.Command; err is "ok" or the error parse_command raises instead. A where of
\* None is the empty list: the database tests `if not where`
Command(name, table, columns, values, where) ==
    [err |-> "ok", name |-> name, table |-> table, columns |-> columns, values |-> values,
     where |-> where]
Raised(e) ==
    [err |-> e, name |-> "", table |-> <<>>, columns |-> <<>>, values |-> EmptyMap,
     where |-> <<>>]

\* the branches of parse_command that match a line against a pattern
ParseMatched(name, m, with_set) ==
    The({The({IF with_set /\ s.err # "ok" THEN Raised(s.err)
              ELSE IF w.err # "ok" THEN Raised(w.err)
              ELSE Command(name, m.table, <<>>, s.values, w.where)
              : w \in {IF (with_set => s.err = "ok") /\ m.where # <<>>
                       THEN parse_where_raw(m.where)
                       ELSE [err |-> "ok", where |-> <<>>]}})
         : s \in {IF with_set THEN AssignFrom(split_outside_quotes(m.set, ","), 1, EmptyMap)
                  ELSE [err |-> "ok", values |-> EmptyMap]}})

\* the branches of parse_command that split a line into tokens
ParseTokens(name, line) ==
    The({IF t.err # "ok" THEN Raised(t.err)
         ELSE IF name = "drop_table"
            THEN IF Len(t.tokens) # 2 THEN Raised("ParseError")
                 ELSE Command(name, t.tokens[2], <<>>, EmptyMap, <<>>)
         ELSE IF Len(t.tokens) < 3 THEN Raised("ParseError")
         ELSE IF name = "create_table"
            THEN The({IF c.err # "ok" THEN Raised(c.err)
                      ELSE Command(name, t.tokens[2], c.columns, EmptyMap, <<>>)
                      : c \in {ColumnsFrom(SubSeq(t.tokens, 3, Len(t.tokens)), 1, <<>>)}})
         ELSE The({IF a.err # "ok" THEN Raised(a.err)
                   ELSE Command(name, t.tokens[2], <<>>, a.values, <<>>)
                   : a \in {AssignFrom(SubSeq(t.tokens, 3, Len(t.tokens)), 1, EmptyMap)}})
         : t \in {shlex_split(line)}})

\* parser.parse_command
parse_command(line0) ==
    The({IF line = <<>> THEN Raised("ParseError")
         ELSE IF Lower(line) \in {<<"e","x","i","t">>, <<"q","u","i","t">>}
            THEN Command("exit", <<>>, <<>>, EmptyMap, <<>>)
         ELSE IF Lower(line) = <<"h","e","l","p">>
            THEN Command("help", <<>>, <<>>, EmptyMap, <<>>)
         ELSE IF Lower(line) = <<"l","i","s","t","_","t","a","b","l","e","s">>
            THEN Command("list_tables", <<>>, <<>>, EmptyMap, <<>>)
         ELSE IF StartsWith(Lower(line), <<"c","r","e","a","t","e","_","t","a","b","l","e">>)
            THEN ParseTokens("create_table", line)
         ELSE IF StartsWith(Lower(line), <<"d","r","o","p","_","t","a","b","l","e">>)
            THEN ParseTokens("drop_table", line)
         ELSE IF MatchTableWhere(line, <<"s","e","l","e","c","t">>).matched
            THEN ParseMatched("select", MatchTableWhere(line, <<"s","e","l","e","c","t">>), FALSE)
         ELSE IF StartsWith(Lower(line), <<"i","n","s","e","r","t">>)
            THEN ParseTokens("insert", line)
         ELSE IF MatchUpdate(line).matched
            THEN ParseMatched("update", MatchUpdate(line), TRUE)
         ELSE IF MatchTableWhere(line, <<"d","e","l","e","t","e">>).matched
            THEN ParseMatched("delete", MatchTableWhere(line, <<"d","e","l","e","t","e">>), FALSE)
         ELSE Raised("ParseError")
         : line \in {Strip(line0)}})

\* CommandExecutor.execute: [err, go_on, db, res]; err is "ok" or the ParseError it
\* raises, go_on what it returns; yes is the answer to a confirmation asked on the way
Executed(err, go_on, o) == [err |-> err, go_on |-> go_on, db |-> o.db, res |-> o.res]

execute(db, cmd, yes) ==
    IF cmd.name = "exit" THEN Executed("ok", FALSE, Out(db, NoRes))
    ELSE IF cmd.name \in {"help", "list_tables"} THEN Executed("ok", TRUE, Out(db, NoRes))
    ELSE IF cmd.name = "create_table"
       THEN IF cmd.table = <<>> \/ cmd.columns = <<>>
            THEN Executed("ParseError", TRUE, Out(db, NoRes))
            ELSE Executed("ok", TRUE, PrimitiveDB_create_table(db, cmd.table, cmd.columns, 0))
    ELSE IF cmd.name = "drop_table"
       THEN IF cmd.table = <<>> THEN Executed("ParseError", TRUE, Out(db, NoRes))
            ELSE Executed("ok", TRUE, PrimitiveDB_drop_table(db, cmd.table, yes, 0))
    ELSE IF cmd.name = "insert"
       THEN IF cmd.table = <<>> \/ cmd.values = EmptyMap
            THEN Executed("ParseError", TRUE, Out(db, NoRes))
            ELSE Executed("ok", TRUE, PrimitiveDB_insert(db, cmd.table, cmd.values, 0))
    ELSE IF cmd.name = "select"
       THEN IF cmd.table = <<>> THEN Executed("ParseError", TRUE, Out(db, NoRes))
            ELSE Executed("ok", TRUE, PrimitiveDB_select(db, cmd.table, cmd.where))
    ELSE IF cmd.name = "update"
       THEN IF cmd.table = <<>> \/ cmd.values = EmptyMap
            THEN Executed("ParseError", TRUE, Out(db, NoRes))
            ELSE Executed("ok", TRUE,
                          PrimitiveDB_update(db, cmd.table, cmd.values, cmd.where, 0))
    ELSE IF cmd.name = "delete"
       THEN IF cmd.table = <<>> THEN Executed("ParseError", TRUE, Out(db, NoRes))
            ELSE Executed("ok", TRUE, PrimitiveDB_delete(db, cmd.table, cmd.where, yes, 0))
    ELSE Executed("ParseError", TRUE, Out(db, NoRes))

\* the lines typed
RunLines ==
    { <<"e","x","i","t">>,
      <<"Q","U","I","T">>,
      <<"h","e","l","p">>,
      <<"l","i","s","t","_","t","a","b","l","e","s">>,
      <<>>,
      <<" "," ">>,
      <<"c","r","e","a","t","e","_","t","a","b","l","e"," ","t"," ","a","g","e",":","i","n","t">>,
      <<"c","r","e","a","t","e","_","t","a","b","l","e"," ","t"," ","a","g","e",":","i","n","t"," ","n","a","m","e",":","s","t","r">>,
      <<"c","r","e","a","t","e","_","t","a","b","l","e","s"," ","t"," ","a","g","e",":","i","n","t">>,
      <<"c","r","e","a","t","e","_","t","a","b","l","e"," ","t">>,
      <<"c","r","e","a","t","e","_","t","a","b","l","e"," ","t"," ","a","g","e">>,
      <<"c","r","e","a","t","e","_","t","a","b","l","e"," ","t"," ","1","x",":","i","n","t">>,
      <<"c","r","e","a","t","e","_","t","a","b","l","e"," ","t"," ","a","g","e",":","t","e","x","t">>,
      <<"c","r","e","a","t","e","_","t","a","b","l","e"," ","'","'"," ","a","g","e",":","i","n","t">>,
      <<"c","r","e","a","t","e","_","t","a","b","l","e"," ","t"," ","i","d",":","i","n","t">>,
      <<"d","r","o","p","_","t","a","b","l","e"," ","t">>,
      <<"d","r","o","p","_","t","a","b","l","e">>,
      <<"d","r","o","p","_","t","a","b","l","e"," ","\"","t">>,
      <<"s","e","l","e","c","t"," ","t">>,
      <<"S","e","l","e","c","t"," ","t"," "," ","w","h","e","r","e"," ","a","g","e","=","1">>,
      <<"s","e","l","e","c","t"," ","t"," ","w","h","e","r","e"," ","a","g","e"," ","="," ","1"," ","a","n","d"," ","i","d","=","1">>,
      <<"s","e","l","e","c","t"," ","t"," ","w","h","e","r","e"," ","1","x","=","1">>,
      <<"s","e","l","e","c","t"," ","t"," ","w","h","e","r","e"," ","a","g","e">>,
      <<"s","e","l","e","c","t"," ","t"," ","w","h","e","r","e"," ","a","g","e","=","1"," ","o","r"," ","i","d","=","2">>,
      <<"s","e","l","e","c","t"," ","t"," ","w","h","e","r","e"," ","n","a","m","e","=","'","a">>,
      <<"s","e","l","e","c","t"," ","t"," ","w","h","e","r","e","x">>,
      <<"s","e","l","e","c","t">>,
      <<"i","n","s","e","r","t"," ","t"," ","a","g","e","=","1">>,
      <<"i","n","s","e","r","t"," ","t"," ","a","g","e","=","1"," ","n","a","m","e","=","'","a"," ","b","'">>,
      <<"i","n","s","e","r","t"," ","t"," ","n","a","m","e","=","\"","a","b","c">>,
      <<"i","n","s","e","r","t"," ","t"," ","a","g","e">>,
      <<"i","n","s","e","r","t"," ","t"," ","1","x","=","1">>,
      <<"i","n","s","e","r","t"," ","t">>,
      <<"u","p","d","a","t","e"," ","t"," ","s","e","t"," ","a","g","e","=","2">>,
      <<"u","p","d","a","t","e"," ","t"," ","s","e","t"," ","a","g","e","=","2"," ","w","h","e","r","e"," ","i","d","=","1">>,
      <<"u","p","d","a","t","e"," ","t"," ","s","e","t"," ","a","g","e","=","2",","," ","n","a","m","e","=","'","x",",","y","'"," ","w","h","e","r","e"," ","i","d","=","1">>,
      <<"u","p","d","a","t","e"," ","t"," ","s","e","t"," ","1","x","=","2">>,
      <<"u","p","d","a","t","e"," ","t"," ","s","e","t"," ",",">>,
      <<"u","p","d","a","t","e"," ","t"," ","s","e","t"," ","a","g","e">>,
      <<"u","p","d","a","t","e"," ","t"," ","s","e","t"," ","a","g","e","=","2"," ","w","h","e","r","e">>,
      <<"d","e","l","e","t","e"," ","t">>,
      <<"d","e","l","e","t","e"," ","t"," ","w","h","e","r","e"," ","i","d","=","1">>,
      <<"d","e","l","e","t","e"," ","t"," ","w","h","e","r","e"," ","i","d">>,
      <<"d","e","l","e","t","e"," ","t"," ","w","h","e","r","e"," ","'","i","d">>,
      <<"f","r","o","b","n","i","c","a","t","e"," ","t">> }

\* where the loop of run stands: reading the next line, ended by its break, or left
\* by an exception nothing caught; reported is the error printed for the last line
Loop(pc, why, reported) == [pc |-> pc, why |-> why, reported |-> reported]

\* one pass of the loop of run for a line read, as the code orders it
Pass(db, line, yes) ==
    IF Strip(line) = <<>> THEN [loop |-> Loop("reading", "", "ok"), out |-> Out(db, NoRes)]
    ELSE The({IF cmd.err = "ParseError"
                 THEN [loop |-> Loop("reading", "", "ParseError"), out |-> Out(db, NoRes)]
              ELSE IF cmd.err # "ok"
                 THEN [loop |-> Loop("left", cmd.err, "ok"), out |-> Out(db, NoRes)]
              ELSE The({[loop |-> IF x.err # "ok" THEN Loop("reading", "", x.err)
                                  ELSE IF x.go_on THEN Loop("reading", "", "ok")
                                  ELSE Loop("ended", "exit", "ok"),
                         out |-> Out(x.db, x.res)]
                        : x \in {execute(db, cmd, yes)}})
              : cmd \in {parse_command(Strip(line))}})

InitRun == InitWith(0, Loop("reading", "", "ok")) /\ engine = "primitive_db"

\* _read_line returns a line and the loop handles it
ReadLine ==
    /\ ret.pc = "reading"
    /\ \E line \in RunLines, yes \in BOOLEAN :
          \E p \in {Pass(DB, line, yes)} :
             /\ p.out.res.op = "insert" => IdBelowBound(meta, p.out.res.table)
             /\ p.out.res.op \in Mutations => VersionBelowBound(p.out.res.table)
             /\ Cardinality(DOMAIN p.out.db.cache) <= MaxCallsCached
             /\ Effect(p.out, parse_command(line).where, 0, FALSE)
             /\ call' = line
             /\ ret' = p.loop
             /\ UNCHANGED engine

\* _read_line raises EOFError
EndOfInput ==
    /\ ret.pc = "reading"
    /\ call' = <<"E","O","F">>
    /\ ret' = Loop("ended", "eof", "ok")
    /\ UNCHANGED <<engine, meta, pmeta, files, torn, versions, cache, res, asked, failedOps,
                   faults, okInserts, prevSel, selHist>>

NextRun == ReadLine \/ EndOfInput
SpecRun == InitRun /\ [][NextRun]_vars

\* C13: the loop of run ends only on exit/quit or on the end of the input: whatever a
\* line makes parse_command or execute raise is caught and reported, and the loop goes
\* on to read the next line.
C13_LoopEndsOnlyOnExitOrEndOfInput ==
    /\ ret.pc \in {"reading", "ended"}
    /\ ret.pc = "ended" => ret.why \in {"exit", "eof"}

\* the loop survives what parse_command and execute raise as ParseError (the part of
\* C13 that holds)
ParseErrorIsReported ==
    (call \in RunLines /\ Strip(call) # <<>> /\ parse_command(call).err = "ParseError")
        => (ret.pc = "reading" /\ ret.reported = "ParseError")

-----------------------------------------------------------------------------
(* The objects behind a SelectResult. Lists and dicts live at addresses:   *)
(* ret holds the lists and the dicts of the process, the list each cache   *)
(* key refers to, and the list the caller got from the last select. The    *)
(* variable cache keeps the rows each key was stored with, by value.       *)

\* the heap of a process that has selected nothing
NoObjects ==
    [lists |-> EmptyMap, dicts |-> EmptyMap, cache |-> EmptyMap, result |-> 0,
     key |-> <<>>, changed |-> {}]

\* the smallest address not in use
Fresh(used) == CHOOSE a \in 1..(Cardinality(used) + 1) : a \notin used

\* the rows a list refers to
Deref(h, l) == [i \in DOMAIN h.lists[l] |-> h.dicts[h.lists[l][i]]]

\* a new dict with the fields given, appended to the list at l
WithDict(h, l, fields) ==
    The({[h EXCEPT !.dicts = Put(h.dicts, d, fields), !.lists[l] = Append(h.lists[l], d)]
         : d \in {Fresh(DOMAIN h.dicts)}})

\* a new list of new dicts for the rows given, in order from row i on
RECURSIVE FillFrom(_, _, _, _)
FillFrom(h, l, rows, i) ==
    IF i > Len(rows) THEN h ELSE FillFrom(WithDict(h, l, rows[i]), l, rows, i + 1)

\* the list the keys share with the caller when nothing is copied
SameRows(h, l) == [h |-> h, at |-> l]

\* [dict(r) for r in rows]: a new list holding a new dict for each dict of the list at l
CopyRows(h, l) ==
    The({[h |-> FillFrom([h EXCEPT !.lists = Put(h.lists, n, <<>>)], n, Deref(h, l), 1),
          at |-> n]
         : n \in {Fresh(DOMAIN h.lists)}})

\* the list compute() returns: new objects for the rows read from the file
Computed(h, rows) ==
    The({[h |-> FillFrom([h EXCEPT !.lists = Put(h.lists, n, <<>>)], n, rows, 1), at |-> n]
         : n \in {Fresh(DOMAIN h.lists)}})

\* the elements of a set in a fixed order, and a sequence without its repetitions
RECURSIVE Order(_)
Order(S) == IF S = {} THEN <<>> ELSE The({<<x>> \o Order(S \ {x}) : x \in {CHOOSE y \in S : TRUE}})

RECURSIVE Dedup(_, _)
Dedup(seq, seen) ==
    IF seq = <<>> THEN <<>>
    ELSE IF seq[1] \in seen THEN Dedup(Tail(seq), seen)
    ELSE <<seq[1]>> \o Dedup(Tail(seq), seen \cup {seq[1]})

RECURSIVE Flatten(_)
Flatten(seqs) == IF seqs = <<>> THEN <<>> ELSE seqs[1] \o Flatten(Tail(seqs))

\* the objects still referred to by the caller or the cache, the others being garbage;
\* the addresses are renumbered in the order in which the caller's list, then the
\* lists of the cache, reach them, which keeps who shares what with whom
Kept(h) ==
    LET keys == Order(DOMAIN h.cache)
        ls == Dedup((IF h.result = 0 THEN <<>> ELSE <<h.result>>)
                    \o [i \in DOMAIN keys |-> h.cache[keys[i]]], {})
        ds == Dedup(Flatten([n \in DOMAIN ls |-> h.lists[ls[n]]]), {})
    IN  [h EXCEPT !.lists = [n \in DOMAIN ls |->
                                [i \in DOMAIN h.lists[ls[n]] |-> IndexOf(ds, h.lists[ls[n]][i])]],
                  !.dicts = [n \in DOMAIN ds |-> h.dicts[ds[n]]],
                  !.cache = [k \in DOMAIN h.cache |-> IndexOf(ls, h.cache[k])],
                  !.result = IF h.result = 0 THEN 0 ELSE IndexOf(ls, h.result)]

\* _make_select_cache.cached on objects: a hit hands out a copy of the list of the key,
\* a miss stores a copy of the computed list under the key and hands out the computed
\* list itself
cached(h, key, rows) ==
    IF key \in DOMAIN h.cache
    THEN The({[c.h EXCEPT !.result = c.at, !.key = key] : c \in {CopyRows(h, h.cache[key])}})
    ELSE The({The({[c.h EXCEPT !.cache = Put(h.cache, key, c.at), !.result = r.at, !.key = key]
                   : c \in {CopyRows(r.h, r.at)}})
              : r \in {Computed(h, rows)}})

\* the bounds of the calls made next to a caller that changes what it was handed
MaxHandedRows == 1      \* inserts are offered while the id counter is below this
MaxHandedVersion == 1   \* mutations are offered while the version is below this
MaxHandedCached == 1    \* the cache entries a select may leave

\* the value the caller writes into a field, and the row the caller adds
CallerValue == IntV(9)
CallerRow == (ID :> IntV(9))

\* the step of a database call that hands out no rows
Handled(o, name, where) ==
    /\ Effect(o, where, 0, FALSE)
    /\ call' = name
    /\ ret' = ret
    /\ UNCHANGED engine

ACreateTable ==
    \E o \in {PrimitiveDB_create_table(DB, T, <<<<AGE, "int">>>>, 0)} :
        Handled(o, "create_table", <<>>)

ADropTable ==
    \E o \in {PrimitiveDB_drop_table(DB, T, TRUE, 0)} : Handled(o, "drop_table", <<>>)

AInsert ==
    /\ T \in DOMAIN meta => meta[T].last_id < MaxHandedRows
    /\ VersionOf(versions, T) < MaxHandedVersion
    /\ \E o \in {PrimitiveDB_insert(DB, T, (AGE :> <<"1">>), 0)} : Handled(o, "insert", <<>>)

AUpdate ==
    /\ VersionOf(versions, T) < MaxHandedVersion
    /\ \E where \in CallPWheres :
          \E o \in {PrimitiveDB_update(DB, T, (AGE :> <<"2">>), where, 0)} :
              Handled(o, "update", where)

ADelete ==
    /\ VersionOf(versions, T) < MaxHandedVersion
    /\ \E o \in {PrimitiveDB_delete(DB, T, <<Condition(ID, "=", <<"1">>)>>, FALSE, 0)} :
          Handled(o, "delete", <<Condition(ID, "=", <<"1">>)>>)

\* select: the rows by value as PrimitiveDB_select gives them, the objects as cached
\* hands them out
ASelect ==
    \E where \in CallPWheres :
        \E o \in {PrimitiveDB_select(DB, T, where)} :
            /\ Cardinality(DOMAIN o.db.cache) <= MaxHandedCached
            /\ Effect(o, where, 0, FALSE)
            /\ call' = "select"
            /\ ret' = IF o.res.err # "ok" THEN ret
                      ELSE Kept(cached(ret,
                                       <<T, where_key(_coerce_where(meta, T, where).prepared),
                                         VersionOf(versions, T)>>,
                                       compute(files, T, _coerce_where(meta, T, where).prepared).rows))
            /\ UNCHANGED engine

\* what the caller does to the SelectResult it holds
Caller(name, h) ==
    /\ ret.result # 0
    /\ call' = name
    /\ ret' = Kept([h EXCEPT !.changed = ret.changed \cup {ret.key}])
    /\ UNCHANGED <<engine, meta, pmeta, files, torn, versions, cache, res, asked, failedOps,
                   faults, okInserts, prevSel, selHist>>

\* the caller changes a field of a returned row
ChangeField ==
    /\ ret.result # 0
    /\ \E i \in DOMAIN ret.lists[ret.result] :
          \E f \in DOMAIN ret.dicts[ret.lists[ret.result][i]] :
              /\ ret.dicts[ret.lists[ret.result][i]][f] # CallerValue
              /\ Caller("change_field",
                        [ret EXCEPT !.dicts[ret.lists[ret.result][i]][f] = CallerValue])

\* the caller adds a row to the returned list
AddRow ==
    /\ ret.result # 0
    /\ Len(ret.lists[ret.result]) <= MaxHandedRows
    /\ Caller("add_row", WithDict(ret, ret.result, CallerRow))

\* the caller removes a row from the returned list
RemoveRow ==
    /\ ret.result # 0
    /\ \E i \in DOMAIN ret.lists[ret.result] :
          Caller("remove_row",
                 [ret EXCEPT !.lists[ret.result] =
                     SelectIdx(ret.lists[ret.result], DOMAIN ret.lists[ret.result] \ {i}, 1)])

InitAlias == InitWith(0, NoObjects) /\ engine = "primitive_db"

NextAlias ==
    \/ ACreateTable
    \/ ADropTable
    \/ AInsert
    \/ AUpdate
    \/ ADelete
    \/ ASelect
    \/ ChangeField
    \/ AddRow
    \/ RemoveRow

SpecAlias == InitAlias /\ [][NextAlias]_vars

\* C21: the rows PrimitiveDB.select returns are not aliased to the cache: whatever the
\* caller did to the rows and lists it was handed (changed a field, added a row,
\* removed a row; after a miss or after a hit), every select returns the rows it
\* returns when no caller touches anything, and the lists of the cache hold the rows
\* they were stored with.
C21_ReturnedRowsAreNotAliased ==
    /\ (call = "select" /\ res.err = "ok") => Deref(ret, ret.result) = res.rows
    /\ DOMAIN ret.cache = DOMAIN cache
    /\ \A k \in DOMAIN ret.cache : Deref(ret, ret.cache[k]) = cache[k]

\* C21 witness: a select was answered from the cache, with rows, under a key whose
\* earlier result the caller had changed
C21_Witness ==
    /\ call = "select" /\ res.err = "ok" /\ res.from_cache /\ res.rows # <<>>
    /\ ret.key \in ret.changed

-----------------------------------------------------------------------------
(* update, delete and insert on a table t that holds rows, next to a table *)
(* users that no call names. The process starts on a directory where both  *)
(* tables were created and filled by earlier processes.                    *)

FrameColumns == <<<<AGE, "int">>, <<NAME, "str">>>>

FrameValues ==
    { (AGE :> <<"0">>) @@ (NAME :> <<"x">>),
      (AGE :> <<"1">>) @@ (NAME :> <<"x">>),
      (AGE :> <<"1">>) @@ (NAME :> <<"y">>) }

FrameSets ==
    { (AGE :> <<"2">>),
      (NAME :> <<"z">>),
      (ID :> <<"2">>),
      (AGE :> <<"1">>) @@ (NAME :> <<"'","x","'">>) }

FramePWheres ==
    { <<>>,
      <<Condition(ID, "=", <<"1">>)>>,
      <<Condition(AGE, "=", <<"1">>)>>,
      <<Condition(NAME, "=", <<"x">>), Condition(AGE, ">", <<"0">>)>>,
      <<Condition(AGE, "<", <<"0">>)>> }

FrameEWheres == { <<>>, AGE, <<"0">>, <<"1">>, <<"b">> }

\* the sequences over S of length n or less
RECURSIVE SeqsUpTo(_, _)
SeqsUpTo(S, n) ==
    IF n = 0 THEN {<<>>}
    ELSE SeqsUpTo(S, n - 1) \cup {Append(q, x) : q \in {y \in SeqsUpTo(S, n - 1) : Len(y) = n - 1}, x \in S}

\* create_table and insert of the engine e
CreatedBy(e, db, table, columns) ==
    IF e = "primitive_db" THEN PrimitiveDB_create_table(db, table, columns, 0).db
    ELSE DBEngine_create_table(db, table, SchemaParts(columns), 0).db

InsertedBy(e, db, table, values) ==
    IF e = "primitive_db" THEN PrimitiveDB_insert(db, table, values, 0).db
    ELSE DBEngine_insert(db, table, values, 0).db

RECURSIVE FilledBy(_, _, _, _)
FilledBy(e, db, table, inserts) ==
    IF inserts = <<>> THEN db
    ELSE FilledBy(e, InsertedBy(e, db, table, Head(inserts)), table, Tail(inserts))

\* the database a process of the engine e finds: users with one row, t with a row for
\* each of the inserts
Populated(e, inserts) ==
    The({IF e = "primitive_db" THEN PrimitiveDB_init(d) ELSE d
         : d \in {FilledBy(e,
                           CreatedBy(e,
                                     FilledBy(e,
                                              CreatedBy(e,
                                                        [meta |-> EmptyMap, pmeta |-> EmptyMap,
                                                         files |-> EmptyMap, torn |-> {}, versions |-> EmptyMap,
                                                         cache |-> EmptyMap],
                                                        USERS, FrameColumns),
                                              USERS, <<(AGE :> <<"1">>) @@ (NAME :> <<"x">>)>>),
                                     T, FrameColumns),
                           T, inserts)}})

InitFrame ==
    /\ engine \in {"primitive_db", "simple_json_db"}
    /\ \E inserts \in SeqsUpTo(FrameValues, MaxId) :
          \E d \in {Populated(engine, inserts)} :
             /\ meta = d.meta
             /\ pmeta = d.pmeta
             /\ files = d.files
             /\ torn = {}
             /\ versions = d.versions
             /\ cache = d.cache
    /\ res = NoRes
    /\ asked = <<>>
    /\ failedOps = {}
    /\ faults = 0
    /\ okInserts = EmptyMap
    /\ prevSel = EmptyMap
    /\ selHist = NoHist
    /\ call = <<>>
    /\ ret = EmptyMap

FInsert ==
    \E values \in FrameValues :
        /\ IdBelowBound(pmeta, T)
        /\ engine = "primitive_db" => VersionBelowBound(T)
        /\ \E o \in {IF engine = "primitive_db" THEN PrimitiveDB_insert(DB, T, values, 0)
                     ELSE DBEngine_insert(DB, T, values, 0)} :
              Called(o, Args("insert", T, <<>>, values, FALSE, FALSE), <<>>)

FUpdate ==
    \E set_values \in FrameSets,
       where \in IF engine = "primitive_db" THEN FramePWheres ELSE FrameEWheres :
        /\ engine = "primitive_db" => VersionBelowBound(T)
        /\ \E o \in {IF engine = "primitive_db"
                     THEN PrimitiveDB_update(DB, T, set_values, where, 0)
                     ELSE DBEngine_update(DB, T, set_values, where, 0)} :
              Called(o, Args("update", T, <<>>, set_values, FALSE, where # <<>>), where)

FDelete ==
    \E where \in IF engine = "primitive_db" THEN FramePWheres ELSE FrameEWheres,
       confirmed \in BOOLEAN :
        /\ engine = "primitive_db" => VersionBelowBound(T)
        /\ \E o \in {IF engine = "primitive_db"
                     THEN PrimitiveDB_delete(DB, T, where, confirmed, 0)
                     ELSE DBEngine_delete(DB, T, where, 0)} :
              Called(o, Args("delete", T, <<>>, EmptyMap, confirmed, where # <<>>), where)

NextFrame == FInsert \/ FUpdate \/ FDelete
SpecFrame == InitFrame /\ [][NextFrame]_vars

\* the rows of a table that match a where: every condition holds (PrimitiveDB), the
\* predicate of the where-text accepts the row (DBEngine); the positions in stored order
Matching(e, rows, where, schema) ==
    IF e = "primitive_db"
    THEN {i \in DOMAIN rows : \A k \in DOMAIN where : Holds(rows[i], where[k], schema)}
    ELSE {i \in DOMAIN rows : Truthy(_predicate(compile_where(where), rows[i]))}

\* the value an engine stores for a raw text of a field
Stored(e, schema, field, raw) ==
    IF e = "primitive_db" THEN parse_scalar(raw, schema[field]) ELSE cast_value(schema[field], raw)

\* C22: a successful update(t, set, where) returns the number of rows of t matching
\* where (all rows for an empty where) and changes only the set fields of those rows,
\* to the coerced values: the other fields of the matching rows, every id, the
\* non-matching rows, the number and order of the rows, the id counters, the schemas
\* and the other tables stay as they were.
C22_UpdateChangesOnlySetFieldsOfMatchingRows ==
    [][(res'.op = "update" /\ res'.err = "ok")
        => LET t == res'.table
               rows == files[t]
               schema == pmeta[t].schema
           IN  \A hit \in {Matching(engine, rows, asked', schema)} :
               /\ res'.count = Cardinality(hit)
               /\ Len(files'[t]) = Len(rows)
               /\ \A i \in DOMAIN rows :
                     /\ DOMAIN files'[t][i] = DOMAIN rows[i]
                     /\ \A f \in DOMAIN rows[i] :
                           files'[t][i][f] =
                              IF i \in hit /\ f \in DOMAIN call'.values
                              THEN Stored(engine, schema, f, call'.values[f])
                              ELSE rows[i][f]
               /\ meta' = meta /\ pmeta' = pmeta
               /\ DOMAIN files' = DOMAIN files
               /\ \A u \in DOMAIN files \ {t} : files'[u] = files[u]]_vars

\* C22 witness: an update with a condition changed one of the two rows of t
C22_Witness ==
    /\ res.op = "update" /\ res.err = "ok" /\ res.count = 1 /\ asked # <<>>
    /\ Len(files[T]) = 2 /\ USERS \in DOMAIN files /\ files[USERS] # <<>>
    /\ \E i \in DOMAIN files[T] : files[T][i][NAME] = StrV(<<"z">>)
    /\ \E i \in DOMAIN files[T] : files[T][i][NAME] # StrV(<<"z">>)

\* C23: a successful delete(t, where) with a non-empty where removes exactly the rows
\* of t matching where and returns their number: the rows left are the non-matching
\* rows, as they were and in their earlier order, and the id counters, the schemas and
\* the other tables stay as they were.
C23_DeleteRemovesExactlyMatchingRows ==
    [][(res'.op = "delete" /\ res'.err = "ok" /\ asked' # <<>>)
        => LET t == res'.table
               rows == files[t]
           IN  \A hit \in {Matching(engine, rows, asked', pmeta[t].schema)} :
               \A left \in {DOMAIN rows \ hit} :
               /\ res'.count = Cardinality(hit)
               /\ Len(files'[t]) = Cardinality(left)
               /\ \A i \in left :
                     files'[t][Cardinality({j \in left : j <= i})] = rows[i]
               /\ meta' = meta /\ pmeta' = pmeta
               /\ DOMAIN files' = DOMAIN files
               /\ \A u \in DOMAIN files \ {t} : files'[u] = files[u]]_vars

\* C23 witness: a delete with a condition removed the first of the two rows of t and
\* left the second
C23_Witness ==
    /\ res.op = "delete" /\ res.err = "ok" /\ res.count = 1 /\ asked # <<>>
    /\ Len(files[T]) = 1 /\ files[T][1][ID] = IntV(2)
    /\ pmeta[T].last_id = 2

-----------------------------------------------------------------------------
(* Conditions on unknown fields and on id, typed at the prompt of run.     *)

\* the lines typed: select, update and delete with a where
WhereLines ==
    { <<"s","e","l","e","c","t"," ","t"," ","w","h","e","r","e"," ","z","i","p","=","1">>,
      <<"s","e","l","e","c","t"," ","t"," ","w","h","e","r","e"," ","a","g","e","=","1"," ","a","n","d"," ","z","i","p","=","1">>,
      <<"u","p","d","a","t","e"," ","t"," ","s","e","t"," ","a","g","e","=","2"," ","w","h","e","r","e"," ","z","i","p","=","1">>,
      <<"d","e","l","e","t","e"," ","t"," ","w","h","e","r","e"," ","z","i","p","=","1">>,
      <<"d","e","l","e","t","e"," ","t"," ","w","h","e","r","e"," ","i","d","=","0","1">>,
      <<"s","e","l","e","c","t"," ","t"," ","w","h","e","r","e"," ","i","d","=","x">>,
      <<"u","p","d","a","t","e"," ","t"," ","s","e","t"," ","a","g","e","=","2"," ","w","h","e","r","e"," ","i","d","=","1"," ","a","n","d"," ","z","i","p","=","n","u","l","l">>,
      <<"u","p","d","a","t","e"," ","t"," ","s","e","t"," ","a","g","e","=","2"," ","w","h","e","r","e"," ","i","d","=","1">>,
      <<"d","e","l","e","t","e"," ","t"," ","w","h","e","r","e"," ","i","d","=","1">>,
      <<"s","e","l","e","c","t"," ","t"," ","w","h","e","r","e"," ","i","d","=","1">>,
      <<"d","e","l","e","t","e"," ","t"," ","w","h","e","r","e"," ","n","a","m","e","=","x"," ","a","n","d"," ","i","d","=","2">> }

\* what parse_command returns for each of the lines
ParsedWhereLines == [line \in WhereLines |-> parse_command(line)]

\* run starts on a directory where t and users were created and filled
InitTyped ==
    /\ engine = "primitive_db"
    /\ \E inserts \in SeqsUpTo(FrameValues, MaxId) :
          \E d \in {Populated(engine, inserts)} :
             /\ meta = d.meta
             /\ pmeta = d.pmeta
             /\ files = d.files
             /\ torn = {}
             /\ versions = d.versions
             /\ cache = d.cache
    /\ res = NoRes
    /\ asked = <<>>
    /\ failedOps = {}
    /\ faults = 0
    /\ okInserts = EmptyMap
    /\ prevSel = EmptyMap
    /\ selHist = NoHist
    /\ call = <<>>
    /\ ret = Loop("reading", "", "ok")

\* _read_line returns one of the lines and the loop handles it
TypeLine ==
    /\ ret.pc = "reading"
    /\ \E line \in WhereLines, yes \in BOOLEAN :
          \E p \in {Pass(DB, line, yes)} :
             /\ p.out.res.op \in Mutations => VersionBelowBound(p.out.res.table)
             /\ Cardinality(DOMAIN p.out.db.cache) <= MaxCallsCached
             /\ Effect(p.out, ParsedWhereLines[line].where, 0, FALSE)
             /\ call' = line
             /\ ret' = p.loop
             /\ UNCHANGED engine

NextTyped == TypeLine
SpecTyped == InitTyped /\ [][NextTyped]_vars

\* the conditions of a parsed command that name neither a column of the table nor id
UnknownConditions(cmd, tables) ==
    {k \in DOMAIN cmd.where : cmd.where[k].field \notin DOMAIN tables[cmd.table].schema \cup {ID}}

\* C24: a where-condition on a field that is neither in the schema of the table nor id
\* passes parse_command and makes the select, update or delete fail with
\* ValidationError when it runs; the failed call changes no row, no id counter and no
\* version (and stores nothing in the select cache). A condition on id is compared as
\* an int: update and delete with the single condition id=<text> act on the rows whose
\* id is the integer the text denotes.
C24_UnknownWhereFieldFailsAtCoercion ==
    [][(ret.pc = "reading" /\ call' \in WhereLines)
        => LET cmd == ParsedWhereLines[call']
           IN  /\ (/\ cmd.err = "ok"
                   /\ cmd.name \in {"select", "update", "delete"}
                   /\ cmd.table \in DOMAIN meta
                   /\ UnknownConditions(cmd, meta) # {})
                     => /\ res'.op = cmd.name
                        /\ res'.err = "ValidationError"
                        /\ <<meta, pmeta, files, versions, cache>>'
                              = <<meta, pmeta, files, versions, cache>>
               /\ (/\ cmd.err = "ok"
                   /\ res'.op \in {"update", "delete"}
                   /\ res'.err = "ok"
                   /\ Len(cmd.where) = 1
                   /\ cmd.where[1].field = ID
                   /\ cmd.where[1].op = "=")
                     => /\ IntLiteralOk(cmd.where[1].raw_value)
                        /\ res'.count =
                              Cardinality({i \in DOMAIN files[cmd.table] :
                                             files[cmd.table][i][ID]
                                                = IntV(IntLiteralValue(cmd.where[1].raw_value))})]_vars

\* C24 witness: an update whose where names the unknown field zip failed with
\* ValidationError on a table that holds a row
C24_Witness ==
    /\ call = <<"u","p","d","a","t","e"," ","t"," ","s","e","t"," ","a","g","e","=","2"," ","w","h","e","r","e"," ","z","i","p","=","1">>
    /\ res.op = "update" /\ res.err = "ValidationError"
    /\ T \in DOMAIN files /\ files[T] # <<>>
    /\ VersionOf(versions, T) > 0

-----------------------------------------------------------------------------
(* decorators.log_command and log_time around the methods of PrimitiveDB.  *)
(* The environment decides how the write of the log line ends.             *)

\* how the try block of log_command ends: the line is written, or mkdir, open or
\* write raises
LogOutcomes == {"written", "mkdir_failed", "open_failed", "write_failed"}

LogColumns == {FrameColumns, <<<<AGE, "text">>>>}
LogValues == {(AGE :> <<"1">>) @@ (NAME :> <<"x">>), (AGE :> <<"x">>) @@ (NAME :> <<"x">>)}
LogSets == {(AGE :> <<"2">>), (ID :> <<"5">>)}

\* the method func wraps, called with the arguments c
func(db, c) ==
    IF c.op = "create_table" THEN PrimitiveDB_create_table(db, c.table, c.columns, 0)
    ELSE IF c.op = "drop_table" THEN PrimitiveDB_drop_table(db, c.table, c.confirmed, 0)
    ELSE IF c.op = "insert" THEN PrimitiveDB_insert(db, c.table, c.values, 0)
    ELSE IF c.op = "select" THEN PrimitiveDB_select(db, c.table, c.where)
    ELSE IF c.op = "update" THEN PrimitiveDB_update(db, c.table, c.values, c.where, 0)
    ELSE PrimitiveDB_delete(db, c.table, c.where, c.confirmed, 0)

\* what a wrapper did: the lines it appended to commands.log (none when the try block
\* raised), the calls of func it made (their outcomes, in order), and what it returned
Wrapped(lines, calls, out) == [lines |-> lines, calls |-> calls, out |-> out]

log_command_raising(db, c, outcome) ==
    IF outcome = "written" THEN Wrapped(1, <<func(db, c)>>, func(db, c))
    ELSE Wrapped(0, <<>>, Out(db, Failed(c.op, c.table, "OSError")))

\* log_command.wrapper: the try block writes the line or raises, `except Exception:
\* pass` drops what it raised, then `return func(*args, **kwargs)`
log_command(db, c, outcome) ==
    The({Wrapped(IF outcome = "written" THEN 1 ELSE 0, <<o>>, o) : o \in {func(db, c)}})

\* log_time.wrapper: `try: return func(...) finally: print(...)`
log_time(db, c, outcome) == log_command(db, c, outcome)

\* the arguments of a logged call
Logged(op, table, columns, values, where, confirmed) ==
    [op |-> op, table |-> table, columns |-> columns, values |-> values,
     where |-> where, confirmed |-> confirmed]

\* the step of a logged call
LoggedCall(op, table, columns, values, where, confirmed) ==
    \E outcome \in LogOutcomes :
       \E x \in {log_time(DB, Logged(op, table, columns, values, where, confirmed), outcome)} :
          /\ op = "insert" => (table \in DOMAIN meta => meta[table].last_id < MaxHandedRows)
          /\ op \in Mutations => VersionOf(versions, table) < MaxHandedVersion
          /\ Cardinality(DOMAIN x.out.db.cache) <= MaxHandedCached
          /\ Effect(x.out, where, 0, FALSE)
          /\ call' = Logged(op, table, columns, values, where, confirmed)
          /\ ret' = [lines |-> x.lines, calls |-> Len(x.calls)]
          /\ UNCHANGED engine

LCreateTable ==
    \E columns \in LogColumns : LoggedCall("create_table", T, columns, EmptyMap, <<>>, FALSE)
LDropTable ==
    \E confirmed \in BOOLEAN : LoggedCall("drop_table", T, <<>>, EmptyMap, <<>>, confirmed)
LInsert ==
    \E values \in LogValues : LoggedCall("insert", T, <<>>, values, <<>>, FALSE)
LSelect ==
    \E where \in CallPWheres : LoggedCall("select", T, <<>>, EmptyMap, where, FALSE)
LUpdate ==
    \E values \in LogSets, where \in CallPWheres :
        LoggedCall("update", T, <<>>, values, where, FALSE)
LDelete ==
    \E where \in CallPWheres, confirmed \in BOOLEAN :
        LoggedCall("delete", T, <<>>, EmptyMap, where, confirmed)

\* the process starts on a directory where t and users were created and filled
InitLog ==
    /\ engine = "primitive_db"
    /\ \E inserts \in SeqsUpTo({(AGE :> <<"1">>) @@ (NAME :> <<"x">>)}, MaxHandedRows) :
          \E d \in {Populated(engine, inserts)} :
             /\ meta = d.meta
             /\ pmeta = d.pmeta
             /\ files = d.files
             /\ torn = {}
             /\ versions = d.versions
             /\ cache = d.cache
    /\ res = NoRes
    /\ asked = <<>>
    /\ failedOps = {}
    /\ faults = 0
    /\ okInserts = EmptyMap
    /\ prevSel = EmptyMap
    /\ selHist = NoHist
    /\ call = <<>>
    /\ ret = [lines |-> 0, calls |-> 0]
NextLog == LCreateTable \/ LDropTable \/ LInsert \/ LSelect \/ LUpdate \/ LDelete
SpecLog == InitLog /\ [][NextLog]_vars

\* C25: whether the line of a call reaches commands.log or mkdir, open or write fails,
\* the method is called exactly once, and the call returns what it returns and leaves
\* the state it leaves when the line is written.
C25_LogFailureChangesNothing ==
    [][\A good \in {log_time(DB, call', "written")} :
               /\ ret'.calls = 1
               /\ res' = good.out.res
               /\ <<meta, pmeta, files, versions, cache>>'
                     = <<good.out.db.meta, good.out.db.pmeta, good.out.db.files,
                         good.out.db.versions, good.out.db.cache>>]_vars

\* C25 witness: the log line of an update was not written and the update changed the
\* row of t
C25_Witness ==
    /\ ret.lines = 0 /\ ret.calls = 1
    /\ res.op = "update" /\ res.err = "ok" /\ res.count = 1
    /\ T \in DOMAIN files /\ files[T] # <<>> /\ files[T][1][AGE] = IntV(2)

-----------------------------------------------------------------------------
(* One str literal typed in insert, in update and in where at the prompt   *)
(* of run.                                                                 *)

\* the literals typed
Literals ==
    { <<"a">>,
      <<"'","a","'">>,
      <<"\"","a","\"">>,
      <<"\"","'","a","'","\"">>,
      <<"'","\"","a","\"","'">>,
      <<"'","a"," ","b","'">>,
      <<"'","n","u","l","l","'">> }

InsertLine(literal) == <<"i","n","s","e","r","t"," ","t"," ","a","g","e","=","1"," ","n","a","m","e","=">> \o literal
UpdateLine(literal) == <<"u","p","d","a","t","e"," ","t"," ","s","e","t"," ","n","a","m","e","=">> \o literal
SelectLine(literal) == <<"s","e","l","e","c","t"," ","t"," ","w","h","e","r","e"," ","n","a","m","e","=">> \o literal

\* the value each place makes of the literal: parse_command, then parse_scalar with the
\* type str of the column name
InsertedValue(literal) == parse_scalar(parse_command(InsertLine(literal)).values[NAME], "str")
UpdatedValue(literal) == parse_scalar(parse_command(UpdateLine(literal)).values[NAME], "str")
WhereValue(literal) == parse_scalar(parse_command(SelectLine(literal)).where[1].raw_value, "str")

\* the user has chosen a literal; t holds one row written with another text
InitLiteral ==
    /\ engine = "primitive_db"
    /\ \E d \in {Populated(engine, <<(AGE :> <<"1">>) @@ (NAME :> <<"x">>)>>)} :
          /\ meta = d.meta
          /\ pmeta = d.pmeta
          /\ files = d.files
          /\ torn = {}
          /\ versions = d.versions
          /\ cache = d.cache
    /\ res = NoRes
    /\ asked = <<>>
    /\ failedOps = {}
    /\ faults = 0
    /\ okInserts = EmptyMap
    /\ prevSel = EmptyMap
    /\ selHist = NoHist
    /\ call = <<>>
    /\ \E literal \in Literals : ret = [literal |-> literal, written |-> ""]

\* the loop of run handles the line; written: the command that last wrote the literal
\* into a row
Typed(line, writes) ==
    \E p \in {Pass(DB, line, FALSE)} :
       /\ p.loop.pc = "reading"
       /\ p.out.res.op = "insert" => IdBelowBound(meta, T)
       /\ p.out.res.op \in Mutations => VersionBelowBound(T)
       /\ Cardinality(DOMAIN p.out.db.cache) <= MaxCached
       /\ Effect(p.out, <<>>, 0, FALSE)
       /\ call' = line
       /\ ret' = [ret EXCEPT !.written =
                     IF writes /\ p.out.res.err = "ok" THEN p.out.res.op ELSE @]
       /\ UNCHANGED engine

InsertLiteral == Typed(InsertLine(ret.literal), TRUE)
UpdateLiteral == Typed(UpdateLine(ret.literal), TRUE)
SelectLiteral == Typed(SelectLine(ret.literal), FALSE)

NextLiteral == InsertLiteral \/ UpdateLiteral \/ SelectLiteral
SpecLiteral == InitLiteral /\ [][NextLiteral]_vars

\* C26: after `insert t ... name=L` or `update t set name=L` wrote the literal L into a
\* row, `select t where name=L` with the same L returns a row (the rows written with L
\* are still in t: nothing deletes, and an update rewrites every row).
C26_LiteralWrittenIsLiteralFound ==
    (call = SelectLine(ret.literal) /\ res.op = "select" /\ res.err = "ok" /\ ret.written # "")
        => res.rows # <<>>

\* the part of C26 that holds: insert and where make the same value of every literal
InsertAndWhereAgree ==
    InsertedValue(ret.literal) = WhereValue(ret.literal)

====
